---- MODULE Spec2Model ----
(***************************************************************************)
(* A model of python_loading_test_example/classroom_simulation.py: the     *)
(* EventTracker, the Teacher and Student actors and the phase protocol of  *)
(* run_simulation.                                                         *)
(*                                                                         *)
(* The asyncio event loop is modelled by interleaving: a step of the main  *)
(* coroutine runs from one await to the next; tasks of a gather, socket    *)
(* handlers and worker threads take steps while the main coroutine waits.  *)
(* A synchronous requests.* call made on the loop thread holds the loop:   *)
(* `blocked` names it while it is in flight and nothing else on the loop   *)
(* runs.                                                                   *)
(*                                                                         *)
(* The external service is the environment.  Its faults (a failed or       *)
(* raising call, a seat response without a token, a transport drop, an     *)
(* event that a seated and connected student does not get before the       *)
(* check) are counted in `faults` and bounded by MaxFaults.  The service   *)
(* pushes an event kind only between the instructor call that causes it    *)
(* and the check of that kind.                                             *)
(*                                                                         *)
(* Spec is the whole run.  ReconnectSpec is the run from the end of the    *)
(* seat phase with one seated student whose transport has dropped,         *)
(* TrackerSpec applies the tracker to arbitrary recorded and expected      *)
(* sets, ChunkSpec is the seat loop for populations up to MaxPopulation.   *)
(***************************************************************************)
EXTENDS Integers, Sequences, FiniteSets, TLC

\* ----------------------------------------------------------------- bounds
NumStudents == 2       \* largest num_students of the modelled runs
MaxFaults == 1         \* environment faults in one run
MaxIds == 4            \* identities of the tracker specification
MaxPopulation == 25    \* largest population of the chunk specification

\* ------------------------------------------------------ program constants
batch_size == 10       \* run_simulation: batch_size = 10
PollLimit == 50        \* connect_socket: for _ in range(50)

None == "None"

Kinds ==
    { "batch_quizzes_created", "batch_quizzes_finished",
      "batch_quizzes_disclosed", "batch_quizzes_closed", "student_points" }

VARIABLES
    pc,                 \* position of run_simulation
    blocked,            \* the synchronous call holding the event loop, or None
    faults,             \* environment faults so far
    num_students,       \* parameter num_students
    lesson_id,          \* local lesson_id
    batch_quizzes_id,   \* local batch_quizzes_id
    students,           \* local students: a sequence of Student objects
    tracker,            \* event_tracker: kind -> set of student_id
    published,          \* kinds the service is currently pushing
    checks,             \* the assert_all_received calls made, in order
    oplog,              \* the operations run_simulation has issued, in order
    connected_count,    \* local connected_count
    connected_students, \* local connected_students (student numbers)
    i,                  \* loop variable of the seat loop
    seated_count,       \* local seated_count
    submitted_count,    \* local submitted_count
    delays,             \* inter-batch delays slept in the seat loop
    chunks,             \* sizes of the seat batches started, in order
    calls               \* the operations applied in OpsSpec and what they gave

\* the locals of run_simulation that the seat and submit phases compute
locals ==
    << connected_count, connected_students, i, seated_count, submitted_count,
       delays, chunks >>

\* everything run_simulation itself owns
orch == << pc, blocked, lesson_id, batch_quizzes_id, checks, oplog, locals >>

\* what no step of a run changes: the parameter, and the record of the
\* operations applied one at a time
fixed == << num_students, calls >>

vars == << orch, faults, fixed, students, tracker, published >>

Min(a, b) == IF a < b THEN a ELSE b

\* ------------------------------------------------------------ EventTracker
EventTracker == [k \in Kinds |-> {}]

TrackerAdd_Overwrite(t, kind, id) == [t EXCEPT ![kind] = {id}]

TrackerAdd_Toggle(t, kind, id) ==
    [t EXCEPT ![kind] = IF id \in @ THEN @ \ {id} ELSE @ \cup {id}]

\* set.add(student_id) on the per-kind set
TrackerAdd(t, kind, id) == [t EXCEPT ![kind] = t[kind] \cup {id}]

Missing_Swapped(event_set, expected_student_ids) == event_set \ expected_student_ids

\* missing = expected_student_ids - event_set
Missing(event_set, expected_student_ids) == expected_student_ids \ event_set

\* unexpected = event_set - expected_student_ids
Unexpected(event_set, expected_student_ids) == event_set \ expected_student_ids

assert_all_received_NoMembers(event_set, expected_student_ids) ==
    Cardinality(event_set) = Cardinality(expected_student_ids)

\* received == expected_count and event_set == expected_student_ids
assert_all_received(event_set, expected_student_ids) ==
    /\ Cardinality(event_set) = Cardinality(expected_student_ids)
    /\ event_set = expected_student_ids

\* The record of one assert_all_received call: what it was given, what it
\* returned and the two differences it logs when it returns false.
CheckRecord(t, kind, expected) ==
    [ kind |-> kind,
      recorded |-> t[kind],
      expected |-> expected,
      result |-> assert_all_received(t[kind], expected),
      missing |-> IF assert_all_received(t[kind], expected)
                  THEN {} ELSE Missing(t[kind], expected),
      unexpected |-> IF assert_all_received(t[kind], expected)
                     THEN {} ELSE Unexpected(t[kind], expected) ]

\* ----------------------------------------------------------------- Student
IdOf(n) == "id" \o ToString(n)

TokenOf(n) == "tok" \o ToString(n)

\* Student.__init__.  sio is the state of the socketio client (idle,
\* connecting, up, down: dropped and reconnecting, failed, closed), sio_sid
\* what sio.get_sid(PARTICIPANT_NS) returns (0: None), epoch the number of
\* connections made.  hpc is the position of a running on_connect coroutine,
\* task/result/polls those of the student's coroutine in the current gather.
\* joins and seat_calls record the join_lesson messages emitted and the
\* choose_seat calls made, seat_epoch the connection (epoch) during which the
\* claim was stored.
Student(n) ==
    [ student_number |-> n,
      sio |-> "idle", sio_sid |-> 0, epoch |-> 0,
      sid |-> 0,
      student_id |-> None,
      socket_token |-> None,
      connected |-> FALSE,
      latest_batch_quizzes_id |-> None,
      quiz_data |-> None,
      lesson_id |-> None,
      disconnect_reason |-> None,
      hpc |-> "none",
      task |-> "none", result |-> "none", polls |-> 0,
      joins |-> <<>>, seat_calls |-> 0, seat_epoch |-> 0 ]

StudentNumbers == DOMAIN students

\* self.sio.connected
SioConnected(st) == st.sio = "up"

\* Python truthiness of an Optional[str]
Truthy(v) == v /= None /\ v /= ""

\* {s.student_id for s in students if s.student_id}
SeatedStudentIds(sts) ==
    { sts[n].student_id : n \in { m \in DOMAIN sts : Truthy(sts[m].student_id) } }

\* The ways run_simulation ends: its returns, and the exceptions of
\* create_lesson and create_batch_quizzes that it does not catch.
Returned ==
    { "abort_lesson", "abort_connect", "abort_batch", "done",
      "raised_lesson", "raised_batch" }

\* The event loop is free to run a handler or a task step.
LoopFree == blocked = None /\ pc \notin Returned

\* No on_connect coroutine is in its 0.1 s sleep.  That sleep is the shortest
\* wait of the program, and the resumed on_connect reads and writes only the
\* student's own sid, identity fields and join messages; the steps that
\* neither read nor write those are taken when no on_connect is pending.
Quiet == \A n \in DOMAIN students : students[n].hpc = "none"

\* An HTTP call returns normally or fails (a fault).
HttpOutcomes == {"ok"} \cup (IF faults < MaxFaults THEN {"http_error"} ELSE {})

FaultOf(outcome) == IF outcome = "ok" THEN 0 ELSE 1

\* What the caller of an operation gets when the operation raises.
Raised == "Raised"

\* A call whose JSON response the code indexes: the response can also be a
\* success that lacks the indexed field (a fault).
JsonOutcomes ==
    {"ok"} \cup (IF faults < MaxFaults THEN {"ok_no_field", "http_error"} ELSE {})

\* --------------------------------------------------------- socket handlers
JoinMessage(st) ==
    [ lesson_id |-> st.lesson_id, user_id |-> st.student_id,
      role |-> "student", access_token |-> st.socket_token ]

on_connect_emits_NoToken(st) == Truthy(st.lesson_id) /\ Truthy(st.student_id)

on_connect_emits_NeedsCachedSid(st) ==
    /\ Truthy(st.lesson_id) /\ Truthy(st.student_id) /\ Truthy(st.socket_token)
    /\ st.sid = st.sio_sid

\* on_connect: the condition under which join_lesson is emitted
on_connect_emits(st) ==
    Truthy(st.lesson_id) /\ Truthy(st.student_id) /\ Truthy(st.socket_token)

\* on_connect up to its await: self.connected = True
on_connect_begin(st) == [st EXCEPT !.connected = TRUE, !.hpc = "sleep"]

\* on_connect after asyncio.sleep(0.1)
on_connect_resume(st) ==
    IF st.sio_sid /= 0
    THEN [st EXCEPT !.hpc = "none",
                    !.sid = st.sio_sid,
                    !.joins = IF on_connect_emits(st)
                              THEN Append(st.joins, JoinMessage(st))
                              ELSE st.joins]
    ELSE [st EXCEPT !.hpc = "none"]

on_disconnect_ClearsIdentity(st, reason) ==
    [st EXCEPT !.disconnect_reason = IF Truthy(reason) THEN reason ELSE "Unknown",
               !.connected = FALSE,
               !.student_id = None, !.socket_token = None]

on_disconnect_RawReason(st, reason) ==
    [st EXCEPT !.disconnect_reason = reason, !.connected = FALSE]

\* on_disconnect(reason)
on_disconnect(st, reason) ==
    [st EXCEPT !.disconnect_reason = IF Truthy(reason) THEN reason ELSE "Unknown",
               !.connected = FALSE]

handler_adds_Unconditionally(st) == TRUE

\* the five handlers' guard: if self.student_id
handler_adds(st) == Truthy(st.student_id)

on_event_tracker_AddsSid(t, kind, st) == TrackerAdd(t, kind, ToString(st.sid))

\* on_batch_quizzes_created .. on_student_points: the tracker after the handler
on_event_tracker(t, kind, st) ==
    IF handler_adds(st) THEN TrackerAdd(t, kind, st.student_id) ELSE t

handler_ack_OnlySeated(st, kind) ==
    IF handler_adds(st)
    THEN [ status |-> "received", student_id |-> st.student_id ]
    ELSE [ status |-> "ignored", student_id |-> st.student_id ]

\* What each of the five handlers returns: the acknowledgment, with the
\* student_id whatever it is; on_student_points adds data.get("points", 0).
handler_ack(st, kind) ==
    IF kind = "student_points"
    THEN [ status |-> "received", student_id |-> st.student_id, points |-> 0 ]
    ELSE [ status |-> "received", student_id |-> st.student_id ]

\* on_any_event, registered for "*": the acknowledgment of any other event
on_any_event(st, event) == [ status |-> "received" ]

\* on_batch_quizzes_created also stores data.get("batch_quizzes_id")
on_event_student(st, kind, data_id) ==
    IF kind = "batch_quizzes_created"
    THEN [st EXCEPT !.latest_batch_quizzes_id = data_id]
    ELSE st

\* ------------------------------------------------- the socket.io transport
\* The transport of student n drops: sio.connected becomes false and the
\* disconnect handler runs with the reason the library gives, if any.
DropReasons == { None, "transport close" }

\* the client after the drop and its disconnect handler
transport_drop(st, reason) ==
    on_disconnect([st EXCEPT !.sio = "down", !.sio_sid = 0], reason)

EnvDrop(n) ==
    /\ LoopFree
    /\ n \in StudentNumbers
    /\ students[n].sio = "up"
    /\ faults < MaxFaults
    /\ \E reason \in DropReasons :
         students' = [students EXCEPT ![n] = transport_drop(@, reason)]
    /\ faults' = faults + 1
    /\ UNCHANGED << orch, fixed, tracker, published >>

\* The client (reconnection=True) re-establishes a dropped transport with a
\* new transport id and the connect handler starts.  The reconnection delay
\* (1 s) is longer than on_connect's sleep (0.1 s), so no on_connect of the
\* student is still running.
EnvReconnect(n) ==
    /\ LoopFree
    /\ Quiet
    /\ n \in StudentNumbers
    /\ students[n].sio = "down"
    /\ students[n].hpc = "none"
    /\ students' = [students EXCEPT ![n] =
           on_connect_begin([@ EXCEPT !.sio = "up",
                                      !.epoch = @ + 1,
                                      !.sio_sid = students[n].epoch + 1])]
    /\ UNCHANGED << orch, faults, fixed, tracker, published >>

\* on_connect resumes after its sleep.
OnConnectResume(n) ==
    /\ LoopFree
    /\ n \in StudentNumbers
    /\ students[n].hpc = "sleep"
    /\ students' = [students EXCEPT ![n] = on_connect_resume(@)]
    /\ UNCHANGED << orch, faults, fixed, tracker, published >>

\* The service pushes an event of a published kind to a connected student
\* and the student's handler runs.
OnEvent(n, kind) ==
    /\ LoopFree
    /\ Quiet
    /\ n \in StudentNumbers
    /\ students[n].sio = "up"
    /\ kind \in published
    /\ tracker' = on_event_tracker(tracker, kind, students[n])
    /\ students' = [students EXCEPT ![n] = on_event_student(@, kind, batch_quizzes_id)]
    /\ UNCHANGED << orch, faults, fixed, published >>

\* ------------------------------------------------- Student.connect_socket
\* await self.sio.connect(...) returns: the transport is up, the connect
\* handler has started.
ConnectReturn(n) ==
    /\ LoopFree
    /\ Quiet
    /\ n \in StudentNumbers
    /\ students[n].task = "connect_wait"
    /\ students' = [students EXCEPT ![n] =
           on_connect_begin([@ EXCEPT !.sio = "up",
                                      !.epoch = @ + 1,
                                      !.sio_sid = students[n].epoch + 1,
                                      !.task = "polling"])]
    /\ UNCHANGED << orch, faults, fixed, tracker, published >>

\* await self.sio.connect(...) raises: except Exception: return False
ConnectRaise(n) ==
    /\ LoopFree
    /\ Quiet
    /\ n \in StudentNumbers
    /\ students[n].task = "connect_wait"
    /\ faults < MaxFaults
    /\ faults' = faults + 1
    /\ students' = [students EXCEPT ![n] =
           [@ EXCEPT !.sio = "failed", !.task = "done", !.result = "false"]]
    /\ UNCHANGED << orch, fixed, tracker, published >>

\* the test of the wait loop: self.connected and a namespace sid
connect_socket_ready(st) == st.connected /\ st.sio_sid /= 0

connect_socket_poll_TrueOnTimeout(st) ==
    IF connect_socket_ready(st) \/ st.polls + 1 >= PollLimit
    THEN [st EXCEPT !.sid = st.sio_sid, !.polls = 0,
                    !.task = "done", !.result = "true"]
    ELSE [st EXCEPT !.polls = st.polls + 1]

connect_socket_poll_NoLimit(st) ==
    IF connect_socket_ready(st)
    THEN [st EXCEPT !.sid = st.sio_sid, !.polls = 0,
                    !.task = "done", !.result = "true"]
    ELSE [st EXCEPT !.polls = IF st.polls >= PollLimit
                               THEN st.polls ELSE st.polls + 1]

\* One iteration of the wait loop: return True when connected with a
\* namespace sid, else sleep; after PollLimit iterations return False.
connect_socket_poll(st) ==
    IF connect_socket_ready(st)
    THEN [st EXCEPT !.sid = st.sio_sid, !.polls = 0,
                    !.task = "done", !.result = "true"]
    ELSE IF st.polls + 1 >= PollLimit
         THEN [st EXCEPT !.polls = 0, !.task = "done", !.result = "false"]
         ELSE [st EXCEPT !.polls = st.polls + 1]

\* Time passes in the wait loops only when nothing else can happen at once:
\* every sio.connect has returned or raised, no waiting student passes the
\* test, and of the waiting students one that has slept least sleeps next
\* (the loops sleep the same 0.1 s per iteration).
PollTick(n) ==
    \A m \in StudentNumbers :
        /\ students[m].task /= "connect_wait"
        /\ students[m].task = "polling" =>
              /\ ~connect_socket_ready(students[m])
              /\ students[n].polls <= students[m].polls

ConnectPoll(n) ==
    /\ LoopFree
    /\ Quiet
    /\ n \in StudentNumbers
    /\ students[n].task = "polling"
    /\ connect_socket_ready(students[n]) \/ PollTick(n)
    /\ students' = [students EXCEPT ![n] = connect_socket_poll(@)]
    /\ UNCHANGED << orch, faults, fixed, tracker, published >>

\* ---------------------------------------------------------- run_simulation
GatherSettled_Any(sts, ns) == ns = {} \/ \E n \in ns : sts[n].task = "done"

\* asyncio.gather(..., return_exceptions=True) has every result
GatherSettled(sts, ns) == \A n \in ns : sts[n].task = "done"

CountTrue_Settled(sts, ns) == Cardinality(ns)

\* sum(1 for result in results if result is True)
CountTrue(sts, ns) == Cardinality({ n \in ns : sts[n].result = "true" })

\* The coroutines that have returned are gone; their results stay in the
\* list gather returned.
ClearTasks(sts) ==
    [n \in DOMAIN sts |->
        IF sts[n].task = "done" THEN [sts[n] EXCEPT !.task = "none"] ELSE sts[n]]

\* a coroutine or thread of a new gather
StartTask(st, task) == [st EXCEPT !.task = task, !.result = "none"]

\* a student the new gather does not include
NoTask(st) == [st EXCEPT !.result = "none"]

\* Step 1: teacher.create_lesson() is called on the loop thread.
CreateLessonCall ==
    /\ pc = "start"
    /\ pc' = "create_lesson"
    /\ blocked' = "create_lesson"
    /\ oplog' = Append(oplog, "create_lesson")
    /\ UNCHANGED << locals, faults, fixed, lesson_id, batch_quizzes_id,
                    students, tracker, published, checks >>

\* Teacher.create_lesson: the lesson id, or None on a RequestException;
\* data["data"]["lesson_id"] raises KeyError when the field is missing, and
\* only RequestException is caught.
create_lesson(outcome) ==
    IF outcome = "ok" THEN "lesson"
    ELSE IF outcome = "ok_no_field" THEN Raised
    ELSE None

abort_on_lesson_Never(lid) == FALSE

\* if not lesson_id: return
abort_on_lesson(lid) == ~Truthy(lid)

CreateLessonReturn ==
    /\ pc = "create_lesson"
    /\ \E outcome \in JsonOutcomes :
         /\ faults' = faults + FaultOf(outcome)
         /\ IF create_lesson(outcome) = Raised
            THEN lesson_id' = lesson_id /\ pc' = "raised_lesson"
            ELSE /\ lesson_id' = create_lesson(outcome)
                 /\ pc' = IF abort_on_lesson(lesson_id')
                          THEN "abort_lesson" ELSE "sleep_lesson"
    /\ blocked' = None
    /\ UNCHANGED << locals, fixed, batch_quizzes_id, students, tracker,
                    published, checks, oplog >>

\* Step 2: after the sleep the students are created and connect_socket is
\* fanned out; each coroutine runs to its await of sio.connect.
SpawnAndConnect ==
    /\ pc = "sleep_lesson"
    /\ students' = [n \in 1..num_students |->
                      [Student(n) EXCEPT !.sio = "connecting", !.task = "connect_wait"]]
    /\ pc' = "connect_gather"
    /\ oplog' = Append(oplog, "connect")
    /\ UNCHANGED << locals, blocked, faults, fixed, lesson_id,
                    batch_quizzes_id, tracker, published, checks >>

abort_on_connect_Never(count) == FALSE

abort_on_connect_AnyFailed(count) == count < num_students

\* if connected_count == 0: return
abort_on_connect(count) == count = 0

ConnectGatherDone ==
    /\ pc = "connect_gather"
    /\ blocked = None
    /\ Quiet
    /\ GatherSettled(students, StudentNumbers)
    /\ connected_count' = CountTrue(students, StudentNumbers)
    /\ pc' = IF abort_on_connect(connected_count') THEN "abort_connect" ELSE "sleep_connect"
    /\ students' = ClearTasks(students)
    /\ UNCHANGED << blocked, faults, fixed, lesson_id, batch_quizzes_id,
                    tracker, published, checks, oplog, connected_students, i,
                    seated_count, submitted_count, delays, chunks >>

\* ----------------------------------------------------- Student.choose_seat
\* The responses of choose_seat's POST: a seat with a socket_token, a seat
\* without one (data.get("socket_token") is None), a success without the
\* student_id, or a failure.
SeatOutcomes ==
    {"ok"} \cup (IF faults < MaxFaults
                 THEN {"ok_no_token", "ok_no_field", "http_error"} ELSE {})

choose_seat_precondition_CachedSid(st) == st.sid /= 0

\* choose_seat up to the request: False without a live namespace sid
choose_seat_precondition(st) == SioConnected(st) /\ st.sio_sid /= 0

SeatCall(n) ==
    /\ LoopFree
    /\ n \in StudentNumbers
    /\ students[n].task = "seat_ready"
    /\ IF choose_seat_precondition(students[n])
       THEN /\ students' = [students EXCEPT ![n] =
                   [@ EXCEPT !.task = "seat_post", !.seat_calls = @ + 1]]
            /\ blocked' = "choose_seat"
       ELSE /\ students' = [students EXCEPT ![n] =
                   [@ EXCEPT !.task = "done", !.result = "false",
                             !.seat_calls = @ + 1]]
            /\ blocked' = blocked
    /\ UNCHANGED << locals, pc, faults, fixed, lesson_id, batch_quizzes_id,
                    tracker, published, checks, oplog >>

choose_seat_response_SharedId(st, outcome, lid) ==
    IF outcome = "http_error"
    THEN [st EXCEPT !.task = "done", !.result = "false"]
    ELSE IF outcome = "ok_no_field"
    THEN [st EXCEPT !.task = "done", !.result = "exception"]
    ELSE [st EXCEPT !.student_id = IdOf(1),
                    !.socket_token = IF outcome = "ok"
                                     THEN TokenOf(st.student_number) ELSE None,
                    !.lesson_id = lid,
                    !.seat_epoch = st.epoch,
                    !.task = "seat_sleep"]

\* choose_seat from the response to its await: the identity, the token and
\* the lesson are stored, or False is returned on a RequestException;
\* data["student_id"] raises KeyError, before anything is stored, when the
\* field is missing.
choose_seat_response(st, outcome, lid) ==
    IF outcome = "http_error"
    THEN [st EXCEPT !.task = "done", !.result = "false"]
    ELSE IF outcome = "ok_no_field"
    THEN [st EXCEPT !.task = "done", !.result = "exception"]
    ELSE [st EXCEPT !.student_id = IdOf(st.student_number),
                    !.socket_token = IF outcome = "ok"
                                     THEN TokenOf(st.student_number) ELSE None,
                    !.lesson_id = lid,
                    !.seat_epoch = st.epoch,
                    !.task = "seat_sleep"]

SeatReturn(n) ==
    /\ blocked = "choose_seat"
    /\ n \in StudentNumbers
    /\ students[n].task = "seat_post"
    /\ \E outcome \in SeatOutcomes :
         /\ students' = [students EXCEPT ![n] = choose_seat_response(@, outcome, lesson_id)]
         /\ faults' = faults + FaultOf(outcome)
    /\ blocked' = None
    /\ UNCHANGED << locals, pc, fixed, lesson_id, batch_quizzes_id, tracker,
                    published, checks, oplog >>

choose_seat_settle_FailsWhenDown(st) ==
    [st EXCEPT !.task = "done",
               !.result = IF st.sio = "up" THEN "true" ELSE "false"]

\* choose_seat after asyncio.sleep(0.5): a dropped socket is only a warning
choose_seat_settle(st) == [st EXCEPT !.task = "done", !.result = "true"]

\* choose_seat from its call to its return
choose_seat(st, outcome, lid) ==
    IF ~choose_seat_precondition(st)
    THEN [st EXCEPT !.task = "done", !.result = "false", !.seat_calls = @ + 1]
    ELSE LET r == choose_seat_response([st EXCEPT !.seat_calls = @ + 1], outcome, lid)
         IN IF r.task = "seat_sleep" THEN choose_seat_settle(r) ELSE r

SeatResume(n) ==
    /\ LoopFree
    /\ Quiet
    /\ n \in StudentNumbers
    /\ students[n].task = "seat_sleep"
    /\ students' = [students EXCEPT ![n] = choose_seat_settle(@)]
    /\ UNCHANGED << orch, faults, fixed, tracker, published >>

\* ------------------------------------------- run_simulation: the seat loop
ConnectedStudents_ByResult(sts) ==
    SelectSeq([n \in 1..Len(sts) |-> n], LAMBDA n : sts[n].result = "true")

\* [s for s in students if s.connected], as student numbers
ConnectedStudents(sts) ==
    SelectSeq([n \in 1..Len(sts) |-> n], LAMBDA n : sts[n].connected)

\* connected_students[i : i + batch_size]
Batch(cs, k) == SubSeq(cs, k + 1, Min(k + batch_size, Len(cs)))

Range(q) == { q[j] : j \in DOMAIN q }

DelayAfterBatch_Always(cs, k) == TRUE

\* if i + batch_size < len(connected_students): await asyncio.sleep(1)
DelayAfterBatch(cs, k) == k + batch_size < Len(cs)

\* the students whose coroutine the current gather awaits
Gathered == { n \in StudentNumbers : students[n].task /= "none" }

SeatPhaseStart ==
    /\ pc = "sleep_connect"
    /\ blocked = None
    /\ Quiet
    /\ connected_students' = ConnectedStudents(students)
    /\ i' = 0
    /\ seated_count' = 0
    /\ pc' = "seat_loop"
    /\ UNCHANGED << blocked, faults, fixed, lesson_id, batch_quizzes_id,
                    students, tracker, published, checks, oplog, connected_count,
                    submitted_count, delays, chunks >>

SeatBatchStart ==
    /\ pc = "seat_loop"
    /\ blocked = None
    /\ Quiet
    /\ i < Len(connected_students)
    /\ students' = [n \in DOMAIN students |->
           IF n \in Range(Batch(connected_students, i))
           THEN StartTask(students[n], "seat_ready") ELSE NoTask(students[n])]
    /\ chunks' = Append(chunks, Len(Batch(connected_students, i)))
    /\ oplog' = Append(oplog, "choose_seat")
    /\ pc' = "seat_gather"
    /\ UNCHANGED << blocked, faults, fixed, lesson_id, batch_quizzes_id,
                    tracker, published, checks, connected_count, connected_students,
                    i, seated_count, submitted_count, delays >>

SeatBatchEnd ==
    /\ pc = "seat_gather"
    /\ blocked = None
    /\ Quiet
    /\ GatherSettled(students, Gathered)
    /\ seated_count' = seated_count + CountTrue(students, Gathered)
    /\ students' = ClearTasks(students)
    /\ i' = i + batch_size
    /\ IF DelayAfterBatch(connected_students, i)
       THEN pc' = "seat_delay" /\ delays' = delays + 1
       ELSE pc' = "seat_loop" /\ delays' = delays
    /\ UNCHANGED << blocked, faults, fixed, lesson_id, batch_quizzes_id,
                    tracker, published, checks, oplog, connected_count,
                    connected_students, submitted_count, chunks >>

SeatDelayEnd ==
    /\ pc = "seat_delay"
    /\ blocked = None
    /\ Quiet
    /\ pc' = "seat_loop"
    /\ UNCHANGED << locals, blocked, faults, fixed, lesson_id,
                    batch_quizzes_id, students, tracker, published, checks, oplog >>

SeatLoopExit ==
    /\ pc = "seat_loop"
    /\ blocked = None
    /\ Quiet
    /\ i >= Len(connected_students)
    /\ pc' = "sleep_seated"
    /\ UNCHANGED << locals, blocked, faults, fixed, lesson_id,
                    batch_quizzes_id, students, tracker, published, checks, oplog >>

\* ------------------------------------------------- Teacher (blocking calls)
\* Teacher.create_batch_quizzes: the batch id, or None on a
\* RequestException; data["data"]["batch_quizzes_id"] raises KeyError when
\* the field is missing.
create_batch_quizzes(outcome) ==
    IF outcome = "ok" THEN "batch"
    ELSE IF outcome = "ok_no_field" THEN Raised
    ELSE None

\* update_batch_quiz_status, disclose_batch_quiz, add_student_points
teacher_put(outcome) == outcome = "ok"

\* The event kind the service pushes after an instructor call went through.
KindOfCall ==
    [ create_batch_quizzes |-> "batch_quizzes_created",
      finish |-> "batch_quizzes_finished",
      disclose |-> "batch_quizzes_disclosed",
      close |-> "batch_quizzes_closed",
      add_student_points |-> "student_points" ]

\* An instructor call is issued on the loop thread.
TeacherCall(op) ==
    /\ blocked' = op
    /\ pc' = op
    /\ oplog' = Append(oplog, op)

\* ... and returns; its result is used only after create_batch_quizzes.
TeacherReturn(op, next) ==
    /\ pc = op
    /\ blocked = op
    /\ \E outcome \in HttpOutcomes :
         /\ faults' = faults + FaultOf(outcome)
         /\ published' = IF teacher_put(outcome)
                         THEN published \cup {KindOfCall[op]} ELSE published
    /\ blocked' = None
    /\ pc' = next

\* ------------------------------------------- run_simulation: verification
\* Seated, connected students that have not got a kind the service pushes.
Lost(kind) ==
    { n \in StudentNumbers :
        /\ kind \in published
        /\ Truthy(students[n].student_id)
        /\ students[n].sio = "up"
        /\ students[n].student_id \notin tracker[kind] }

ExpectedAudience_Connected(sts) ==
    { sts[n].student_id : n \in { m \in DOMAIN sts :
                                    Truthy(sts[m].student_id) /\ sts[m].connected } }

\* seated_student_ids = {s.student_id for s in students if s.student_id}
ExpectedAudience(sts) == SeatedStudentIds(sts)

Verify_NoCheck(kind) ==
    /\ blocked = None
    /\ Quiet
    /\ faults + Cardinality(Lost(kind)) <= MaxFaults
    /\ faults' = faults + Cardinality(Lost(kind))
    /\ checks' = checks
    /\ published' = published \ {kind}

\* event_tracker.assert_all_received(kind, seated_student_ids, num_students)
\* after the delay; the service stops pushing the kind.
Verify(kind) ==
    /\ blocked = None
    /\ Quiet
    /\ faults + Cardinality(Lost(kind)) <= MaxFaults
    /\ faults' = faults + Cardinality(Lost(kind))
    /\ checks' = Append(checks, CheckRecord(tracker, kind, ExpectedAudience(students)))
    /\ published' = published \ {kind}

\* Step 4
CreateBatchCall ==
    /\ pc = "sleep_seated"
    /\ blocked = None
    /\ Quiet
    /\ TeacherCall("create_batch_quizzes")
    /\ UNCHANGED << locals, faults, fixed, lesson_id, batch_quizzes_id,
                    students, tracker, published, checks >>

abort_on_batch_Never(bid) == FALSE

\* if not batch_quizzes_id: return
abort_on_batch(bid) == ~Truthy(bid)

CreateBatchReturn ==
    /\ pc = "create_batch_quizzes"
    /\ blocked = "create_batch_quizzes"
    /\ \E outcome \in JsonOutcomes :
         /\ faults' = faults + FaultOf(outcome)
         /\ IF create_batch_quizzes(outcome) = Raised
            THEN batch_quizzes_id' = batch_quizzes_id /\ pc' = "raised_batch"
            ELSE /\ batch_quizzes_id' = create_batch_quizzes(outcome)
                 /\ pc' = IF abort_on_batch(batch_quizzes_id')
                          THEN "abort_batch" ELSE "sleep_created"
    /\ published' = IF Truthy(batch_quizzes_id')
                    THEN published \cup {KindOfCall["create_batch_quizzes"]}
                    ELSE published
    /\ blocked' = None
    /\ UNCHANGED << locals, fixed, lesson_id, students, tracker, checks, oplog >>

ThreadHolder_OnLoop(op) == op

\* asyncio.to_thread(...): the call runs in a worker thread, so nothing
\* holds the event loop while it is in flight
ThreadHolder(op) == None

\* Step 5: the check of batch_quizzes_created, then get_latest_batch_quiz is
\* started in a worker thread for every student with a student_id.
VerifyCreatedAndFetch ==
    /\ pc = "sleep_created"
    /\ Verify("batch_quizzes_created")
    /\ students' = [n \in DOMAIN students |->
           IF Truthy(students[n].student_id)
           THEN StartTask(students[n], "get_inflight") ELSE NoTask(students[n])]
    /\ oplog' = oplog \o << "verify_batch_quizzes_created", "get_latest_batch_quiz" >>
    /\ pc' = "get_gather"
    /\ blocked' = ThreadHolder("get_latest_batch_quiz")
    /\ UNCHANGED << locals, fixed, lesson_id, batch_quizzes_id, tracker >>

\* The responses of get_latest_batch_quiz's GET: a quiz, a quiz whose
\* SINGLE_SELECT question has an empty option_list, or a failure.
GetOutcomes ==
    {"ok"} \cup (IF faults < MaxFaults THEN {"ok_no_options", "http_error"} ELSE {})

get_latest_batch_quiz_Uncaught(st, outcome) ==
    IF ~Truthy(st.student_id)
    THEN [st EXCEPT !.task = "done", !.result = "false"]
    ELSE IF outcome = "ok"
         THEN [st EXCEPT !.quiz_data = "quiz", !.task = "done", !.result = "true"]
    ELSE [st EXCEPT !.task = "done", !.result = "exception"]

\* Student.get_latest_batch_quiz in its thread: the quiz, or None
get_latest_batch_quiz(st, outcome) ==
    IF ~Truthy(st.student_id)
    THEN [st EXCEPT !.task = "done", !.result = "false"]
    ELSE IF outcome = "ok"
         THEN [st EXCEPT !.quiz_data = "quiz", !.task = "done", !.result = "true"]
    ELSE IF outcome = "ok_no_options"
         THEN [st EXCEPT !.quiz_data = "quiz_no_options",
                         !.task = "done", !.result = "true"]
    ELSE [st EXCEPT !.task = "done", !.result = "false"]

GetReturn(n) ==
    /\ pc \notin Returned
    /\ Quiet
    /\ n \in StudentNumbers
    /\ students[n].task = "get_inflight"
    /\ \E outcome \in GetOutcomes :
         /\ students' = [students EXCEPT ![n] = get_latest_batch_quiz(@, outcome)]
         /\ faults' = faults + FaultOf(outcome)
    /\ UNCHANGED << orch, fixed, tracker, published >>

GetGatherDone ==
    /\ pc = "get_gather"
    /\ blocked = None
    /\ Quiet
    /\ GatherSettled(students, Gathered)
    /\ students' = ClearTasks(students)
    /\ pc' = "sleep_fetched"
    /\ UNCHANGED << locals, blocked, faults, fixed, lesson_id,
                    batch_quizzes_id, tracker, published, checks, oplog >>

\* submit_answers is started in a worker thread for every student with quiz_data
SubmitStart ==
    /\ pc = "sleep_fetched"
    /\ blocked = None
    /\ Quiet
    /\ students' = [n \in DOMAIN students |->
           IF Truthy(students[n].quiz_data)
           THEN StartTask(students[n], "submit_inflight") ELSE NoTask(students[n])]
    /\ oplog' = Append(oplog, "submit_answers")
    /\ pc' = "submit_gather"
    /\ blocked' = ThreadHolder("submit_answers")
    /\ UNCHANGED << locals, faults, fixed, lesson_id,
                    batch_quizzes_id, tracker, published, checks >>

\* submit_answers gets as far as its PUT: the precondition holds and the
\* answers could be drawn (random.randint(1, 0) raises ValueError for a
\* SINGLE_SELECT question without options).
submit_answers_sends(st) ==
    /\ Truthy(st.student_id) /\ Truthy(st.quiz_data)
    /\ st.quiz_data /= "quiz_no_options"

\* Student.submit_answers in its thread
submit_answers(st, outcome) ==
    IF ~Truthy(st.student_id) \/ ~Truthy(st.quiz_data)
    THEN [st EXCEPT !.task = "done", !.result = "false"]
    ELSE IF st.quiz_data = "quiz_no_options"
    THEN [st EXCEPT !.task = "done", !.result = "exception"]
    ELSE [st EXCEPT !.task = "done",
                    !.result = IF outcome = "ok" THEN "true" ELSE "false"]

SubmitReturn(n) ==
    /\ pc \notin Returned
    /\ Quiet
    /\ n \in StudentNumbers
    /\ students[n].task = "submit_inflight"
    /\ \E outcome \in (IF submit_answers_sends(students[n])
                        THEN HttpOutcomes ELSE {"ok"}) :
         /\ students' = [students EXCEPT ![n] = submit_answers(@, outcome)]
         /\ faults' = faults + FaultOf(outcome)
    /\ UNCHANGED << orch, fixed, tracker, published >>

SubmitGatherDone ==
    /\ pc = "submit_gather"
    /\ blocked = None
    /\ Quiet
    /\ GatherSettled(students, Gathered)
    /\ submitted_count' = CountTrue(students, Gathered)
    /\ students' = ClearTasks(students)
    /\ pc' = "sleep_submitted"
    /\ UNCHANGED << blocked, faults, fixed, lesson_id, batch_quizzes_id,
                    tracker, published, checks, oplog, connected_count,
                    connected_students, i, seated_count, delays, chunks >>

\* Step 6
FinishCall ==
    /\ pc = "sleep_submitted"
    /\ blocked = None
    /\ Quiet
    /\ TeacherCall("finish")
    /\ UNCHANGED << locals, faults, fixed, lesson_id, batch_quizzes_id,
                    students, tracker, published, checks >>

FinishReturn ==
    /\ TeacherReturn("finish", "sleep_finished")
    /\ UNCHANGED << locals, fixed, lesson_id, batch_quizzes_id, students,
                    tracker, checks, oplog >>

\* the check of batch_quizzes_finished, then Step 7
VerifyFinishedAndDisclose ==
    /\ pc = "sleep_finished"
    /\ Verify("batch_quizzes_finished")
    /\ blocked' = "disclose"
    /\ pc' = "disclose"
    /\ oplog' = oplog \o << "verify_batch_quizzes_finished", "disclose" >>
    /\ UNCHANGED << locals, fixed, lesson_id, batch_quizzes_id, students, tracker >>

DiscloseReturn ==
    /\ TeacherReturn("disclose", "sleep_disclosed")
    /\ UNCHANGED << locals, fixed, lesson_id, batch_quizzes_id, students,
                    tracker, checks, oplog >>

\* the check of batch_quizzes_disclosed, then Step 8
VerifyDisclosedAndClose ==
    /\ pc = "sleep_disclosed"
    /\ Verify("batch_quizzes_disclosed")
    /\ blocked' = "close"
    /\ pc' = "close"
    /\ oplog' = oplog \o << "verify_batch_quizzes_disclosed", "close" >>
    /\ UNCHANGED << locals, fixed, lesson_id, batch_quizzes_id, students, tracker >>

CloseReturn ==
    /\ TeacherReturn("close", "sleep_closed")
    /\ UNCHANGED << locals, fixed, lesson_id, batch_quizzes_id, students,
                    tracker, checks, oplog >>

\* the check of batch_quizzes_closed, then Step 9
VerifyClosedAndPoints ==
    /\ pc = "sleep_closed"
    /\ Verify("batch_quizzes_closed")
    /\ blocked' = "add_student_points"
    /\ pc' = "add_student_points"
    /\ oplog' = oplog \o << "verify_batch_quizzes_closed", "add_student_points" >>
    /\ UNCHANGED << locals, fixed, lesson_id, batch_quizzes_id, students, tracker >>

PointsReturn ==
    /\ TeacherReturn("add_student_points", "sleep_points")
    /\ UNCHANGED << locals, fixed, lesson_id, batch_quizzes_id, students,
                    tracker, checks, oplog >>

disconnect_begin_Always(st) == StartTask(st, "disconnect_wait")

\* Student.disconnect up to its await: sio.disconnect() only when connected
disconnect_begin(st) ==
    IF SioConnected(st)
    THEN StartTask(st, "disconnect_wait")
    ELSE [st EXCEPT !.task = "done", !.result = "none"]

\* the check of student_points, then Step 10: disconnect is fanned out
VerifyPointsAndDisconnect ==
    /\ pc = "sleep_points"
    /\ Verify("student_points")
    /\ students' = [n \in DOMAIN students |-> disconnect_begin(students[n])]
    /\ oplog' = oplog \o << "verify_student_points", "disconnect" >>
    /\ pc' = "disconnect_gather"
    /\ UNCHANGED << locals, blocked, fixed, lesson_id, batch_quizzes_id, tracker >>

\* await self.sio.disconnect() returns (the disconnect handler has run) or
\* raises (gather keeps the exception as the result).
DisconnectReturn(n) ==
    /\ LoopFree
    /\ n \in StudentNumbers
    /\ students[n].task = "disconnect_wait"
    /\ \E outcome \in HttpOutcomes :
         /\ faults' = faults + FaultOf(outcome)
         /\ students' = [students EXCEPT ![n] =
              IF outcome = "ok"
              THEN on_disconnect([@ EXCEPT !.sio = "closed", !.sio_sid = 0,
                                           !.task = "done", !.result = "none"], None)
              ELSE [@ EXCEPT !.task = "done", !.result = "exception"]]
    /\ UNCHANGED << orch, fixed, tracker, published >>

\* the final summary
Summary ==
    /\ pc = "disconnect_gather"
    /\ blocked = None
    /\ Quiet
    /\ GatherSettled(students, Gathered)
    /\ students' = ClearTasks(students)
    /\ oplog' = Append(oplog, "summary")
    /\ pc' = "done"
    /\ UNCHANGED << locals, blocked, faults, fixed, lesson_id,
                    batch_quizzes_id, tracker, published, checks >>

\* ------------------------------------------------------- the specification
Init ==
    /\ pc = "start"
    /\ blocked = None
    /\ faults = 0
    /\ num_students \in 0..NumStudents
    /\ lesson_id = None
    /\ batch_quizzes_id = None
    /\ students = << >>
    /\ tracker = EventTracker
    /\ published = {}
    /\ checks = << >>
    /\ oplog = << >>
    /\ connected_count = 0
    /\ connected_students = << >>
    /\ i = 0
    /\ seated_count = 0
    /\ submitted_count = 0
    /\ delays = 0
    /\ chunks = << >>
    /\ calls = << >>

Next ==
    \/ CreateLessonCall \/ CreateLessonReturn \/ SpawnAndConnect
    \/ ConnectGatherDone \/ SeatPhaseStart \/ SeatBatchStart \/ SeatBatchEnd
    \/ SeatLoopExit \/ CreateBatchCall \/ CreateBatchReturn
    \/ VerifyCreatedAndFetch \/ GetGatherDone \/ SubmitStart \/ SubmitGatherDone
    \/ FinishCall \/ FinishReturn \/ VerifyFinishedAndDisclose \/ DiscloseReturn
    \/ VerifyDisclosedAndClose \/ CloseReturn \/ VerifyClosedAndPoints
    \/ PointsReturn \/ VerifyPointsAndDisconnect \/ Summary
    \/ \E n \in StudentNumbers : ConnectReturn(n)
    \/ \E n \in StudentNumbers : ConnectRaise(n)
    \/ \E n \in StudentNumbers : ConnectPoll(n)
    \/ \E n \in StudentNumbers : SeatCall(n)
    \/ \E n \in StudentNumbers : SeatReturn(n)
    \/ \E n \in StudentNumbers : SeatResume(n)
    \/ \E n \in StudentNumbers : GetReturn(n)
    \/ \E n \in StudentNumbers : SubmitReturn(n)
    \/ \E n \in StudentNumbers : DisconnectReturn(n)
    \/ \E n \in StudentNumbers : EnvDrop(n)
    \/ \E n \in StudentNumbers : EnvReconnect(n)
    \/ \E n \in StudentNumbers : OnConnectResume(n)
    \/ \E n \in StudentNumbers, kind \in Kinds : OnEvent(n, kind)

Spec == Init /\ [][Next]_vars

\* ------------------------------------------- the run after the seat phase
\* A student for whom connect_socket has returned True.
ConnectedStudent(n) ==
    [ connect_socket_poll(on_connect_resume(on_connect_begin(
          [Student(n) EXCEPT !.sio = "up", !.epoch = 1, !.sio_sid = 1,
                             !.task = "polling"])))
      EXCEPT !.task = "none" ]

\* A student for whom choose_seat has then returned True.
SeatedStudent(n) ==
    [ choose_seat_settle(choose_seat_response(
          [ConnectedStudent(n) EXCEPT !.seat_calls = 1], "ok", "lesson"))
      EXCEPT !.task = "none" ]

\* The run at the end of the seat phase: every student is seated and the
\* transport of one of them has dropped since its claim.
ReconnectInit ==
    /\ pc = "sleep_seated"
    /\ blocked = None
    /\ faults = 0
    /\ num_students = NumStudents
    /\ lesson_id = "lesson"
    /\ batch_quizzes_id = None
    /\ \E d \in 1..NumStudents :
         students = [n \in 1..NumStudents |->
                       IF n = d THEN transport_drop(SeatedStudent(n), None)
                       ELSE SeatedStudent(n)]
    /\ tracker = EventTracker
    /\ published = {}
    /\ checks = << >>
    /\ oplog = << "create_lesson", "connect", "choose_seat" >>
    /\ connected_count = NumStudents
    /\ connected_students = [n \in 1..NumStudents |-> n]
    /\ i = batch_size
    /\ seated_count = NumStudents
    /\ submitted_count = 0
    /\ delays = 0
    /\ chunks = << NumStudents >>
    /\ calls = << >>

ReconnectNext ==
    \/ CreateBatchCall \/ CreateBatchReturn
    \/ VerifyCreatedAndFetch \/ GetGatherDone \/ SubmitStart \/ SubmitGatherDone
    \/ FinishCall \/ FinishReturn \/ VerifyFinishedAndDisclose \/ DiscloseReturn
    \/ VerifyDisclosedAndClose \/ CloseReturn \/ VerifyClosedAndPoints
    \/ PointsReturn \/ VerifyPointsAndDisconnect \/ Summary
    \/ \E n \in StudentNumbers : GetReturn(n)
    \/ \E n \in StudentNumbers : SubmitReturn(n)
    \/ \E n \in StudentNumbers : DisconnectReturn(n)
    \/ \E n \in StudentNumbers : EnvDrop(n)
    \/ \E n \in StudentNumbers : EnvReconnect(n)
    \/ \E n \in StudentNumbers : OnConnectResume(n)
    \/ \E n \in StudentNumbers, kind \in Kinds : OnEvent(n, kind)

ReconnectSpec == ReconnectInit /\ [][ReconnectNext]_vars

\* ------------------------------------------------- the tracker on its own
\* MaxIds connected students, any of them seated, any identities already
\* recorded for the one kind the service is pushing.
TrackerIds == { IdOf(n) : n \in 1..MaxIds }

TrackerInit ==
    /\ pc = "sleep"
    /\ blocked = None
    /\ faults = 0
    /\ num_students = MaxIds
    /\ lesson_id = "lesson"
    /\ batch_quizzes_id = "batch"
    /\ \E seated \in SUBSET (1..MaxIds) :
         students = [n \in 1..MaxIds |->
                       IF n \in seated THEN SeatedStudent(n) ELSE ConnectedStudent(n)]
    /\ \E kind \in Kinds :
         /\ published = {kind}
         /\ \E recorded \in SUBSET TrackerIds :
              tracker = [EventTracker EXCEPT ![kind] = recorded]
    /\ checks = << >>
    /\ oplog = << >>
    /\ connected_count = MaxIds
    /\ connected_students = << >>
    /\ i = 0
    /\ seated_count = 0
    /\ submitted_count = 0
    /\ delays = 0
    /\ chunks = << >>
    /\ calls = << >>

\* event_tracker.assert_all_received(kind, seated_student_ids, num_students)
TrackerCheck(kind) ==
    /\ kind \in published
    /\ checks = << >>
    /\ checks' = Append(checks, CheckRecord(tracker, kind, ExpectedAudience(students)))
    /\ UNCHANGED << pc, blocked, lesson_id, batch_quizzes_id, oplog, locals, faults,
                    fixed, students, tracker, published >>

TrackerNext ==
    \/ \E kind \in Kinds : TrackerCheck(kind)
    \/ \E n \in StudentNumbers, kind \in Kinds : OnEvent(n, kind)

TrackerSpec == TrackerInit /\ [][TrackerNext]_vars

\* --------------------------------------------------- the seat loop on its own
\* Populations up to MaxPopulation of which the first `up` students are
\* still connected when the seat phase starts.
ChunkInit ==
    /\ pc = "sleep_connect"
    /\ blocked = None
    /\ faults = 0
    /\ num_students \in 1..MaxPopulation
    /\ lesson_id = "lesson"
    /\ batch_quizzes_id = None
    /\ \E up \in 0..num_students :
         students = [n \in 1..num_students |->
                       IF n <= up THEN ConnectedStudent(n)
                       ELSE transport_drop(ConnectedStudent(n), None)]
    /\ tracker = EventTracker
    /\ published = {}
    /\ checks = << >>
    /\ oplog = << "create_lesson", "connect" >>
    /\ connected_count = num_students
    /\ connected_students = << >>
    /\ i = 0
    /\ seated_count = 0
    /\ submitted_count = 0
    /\ delays = 0
    /\ chunks = << >>
    /\ calls = << >>

\* choose_seat of student n from its call to its return, with a seat granted;
\* the coroutines of a batch run in the order gather started them.
ChunkSeat(n) ==
    /\ pc = "seat_gather"
    /\ n \in StudentNumbers
    /\ students[n].task = "seat_ready"
    /\ \A m \in StudentNumbers : m < n => students[m].task /= "seat_ready"
    /\ choose_seat_precondition(students[n])
    /\ students' = [students EXCEPT ![n] =
           choose_seat_settle(choose_seat_response(
               [@ EXCEPT !.seat_calls = @ + 1], "ok", lesson_id))]
    /\ UNCHANGED << orch, faults, fixed, tracker, published >>

ChunkNext ==
    \/ SeatPhaseStart \/ SeatBatchStart \/ SeatBatchEnd \/ SeatDelayEnd
    \/ SeatLoopExit
    \/ \E n \in StudentNumbers : ChunkSeat(n)

ChunkSpec == ChunkInit /\ [][ChunkNext]_vars

\* ================================================================ properties
\* the identities that are set (non-null) now
NonNullStudentIds ==
    { students[n].student_id :
        n \in { m \in StudentNumbers : students[m].student_id /= None } }

\* C1: assert_all_received returns true exactly when the recorded set equals
\* the expected set; it returns false when the recorded set is a strict
\* subset, a strict superset, or a set of the same size with other members.
C1_ExactSetEquality ==
    \A j \in DOMAIN checks :
        LET c == checks[j] IN
        /\ c.result = (c.recorded = c.expected)
        /\ (c.recorded \subseteq c.expected /\ c.recorded /= c.expected) => ~c.result
        /\ (c.expected \subseteq c.recorded /\ c.recorded /= c.expected) => ~c.result
        /\ ( /\ Cardinality(c.recorded) = Cardinality(c.expected)
             /\ c.recorded /= c.expected ) => ~c.result

\* a check of two different sets of the same size has returned false
C1_SameSizeOtherMembers ==
    \E j \in DOMAIN checks :
        /\ Cardinality(checks[j].recorded) = Cardinality(checks[j].expected)
        /\ checks[j].recorded /= checks[j].expected
        /\ checks[j].recorded /= {}
        /\ ~checks[j].result

\* the kinds of the five checks, in the order run_simulation makes them
KindOrder ==
    << "batch_quizzes_created", "batch_quizzes_finished",
       "batch_quizzes_disclosed", "batch_quizzes_closed", "student_points" >>

\* C2: at each of the five checks the expected set is the set of the
\* student_ids that are non-null: a student without a seat is never in it,
\* a seated student is in it whether or not its connection is up.
C2_ExpectedIsSeated ==
    /\ Len(checks) <= Len(KindOrder)
    /\ \A j \in DOMAIN checks :
        /\ checks[j].kind = KindOrder[j]
        /\ checks[j].expected = NonNullStudentIds
        /\ \A n \in StudentNumbers :
            /\ students[n].student_id = None => IdOf(n) \notin checks[j].expected
            /\ students[n].student_id /= None =>
                  students[n].student_id \in checks[j].expected

\* the check of batch_quizzes_finished has just been made while a seated
\* student was down, and its identity is in the expected set
C2_SeatedButDown ==
    /\ pc = "disclose"
    /\ Len(checks) = 2
    /\ \E n \in StudentNumbers :
        /\ students[n].sio = "down"
        /\ ~students[n].connected
        /\ students[n].student_id = IdOf(n)
        /\ IdOf(n) \in checks[2].expected

\* the connect handler of student n resumes from its sleep in this step
ResumeStep(n) == students[n].hpc = "sleep" /\ students'[n].hpc = "none"

\* lesson, identity and token are stored and the connection is not the first
SeatedReconnect(n) ==
    /\ Truthy(students[n].lesson_id)
    /\ Truthy(students[n].student_id)
    /\ Truthy(students[n].socket_token)
    /\ students[n].epoch > 1

\* the step emits exactly one join_lesson with the stored lesson_id,
\* student_id and socket_token, and makes no choose_seat call
JoinedOnce(n) ==
    /\ students'[n].joins =
          Append(students[n].joins,
                 [ lesson_id |-> students[n].lesson_id,
                   user_id |-> students[n].student_id,
                   role |-> "student",
                   access_token |-> students[n].socket_token ])
    /\ students'[n].seat_calls = students[n].seat_calls

C4_OnlySeatedRecorded ==
    \A kind \in Kinds :
        /\ None \notin tracker[kind]
        /\ tracker[kind] \subseteq NonNullStudentIds

\* a student without a seat has handled batch_quizzes_created
C4_UnseatedHandled ==
    \E n \in StudentNumbers :
        /\ students[n].student_id = None
        /\ students[n].latest_batch_quizzes_id /= None

GatherPcs ==
    { "connect_gather", "seat_gather", "get_gather", "submit_gather",
      "disconnect_gather" }

\* the positions a coroutine or thread of each gather can be at
TasksOf ==
    [ connect_gather |-> { "connect_wait", "polling", "done" },
      seat_gather |-> { "seat_ready", "seat_post", "seat_sleep", "done" },
      get_gather |-> { "get_inflight", "done" },
      submit_gather |-> { "submit_inflight", "done" },
      disconnect_gather |-> { "disconnect_wait", "done" } ]

\* the operations of run_simulation in program order
PhaseOrder ==
    << "create_lesson", "connect", "choose_seat", "create_batch_quizzes",
       "verify_batch_quizzes_created", "get_latest_batch_quiz", "submit_answers",
       "finish", "verify_batch_quizzes_finished", "disclose",
       "verify_batch_quizzes_disclosed", "close", "verify_batch_quizzes_closed",
       "add_student_points", "verify_student_points", "disconnect", "summary" >>

PhaseIndex(op) == CHOOSE k \in DOMAIN PhaseOrder : PhaseOrder[k] = op

\* the number of checks made when run_simulation is at a position
ChecksBy(p) ==
    IF p \in { "get_gather", "sleep_fetched", "submit_gather", "sleep_submitted",
               "finish", "sleep_finished" } THEN 1
    ELSE IF p \in { "disclose", "sleep_disclosed" } THEN 2
    ELSE IF p \in { "close", "sleep_closed" } THEN 3
    ELSE IF p \in { "add_student_points", "sleep_points" } THEN 4
    ELSE IF p \in { "disconnect_gather", "done" } THEN 5
    ELSE 0

\* C5: the phases are strict barriers: a fan-out has settled in full before
\* the next phase starts, each check is made before the next phase starts,
\* and no phase is issued out of order.
C5_PhaseBarriers ==
    /\ pc \notin GatherPcs => \A n \in StudentNumbers : students[n].task = "none"
    /\ pc \in GatherPcs =>
          \A n \in StudentNumbers : students[n].task \in TasksOf[pc] \cup {"none"}
    /\ Len(checks) = ChecksBy(pc)
    /\ \A a, b \in DOMAIN oplog :
          a < b => PhaseIndex(oplog[a]) < PhaseIndex(oplog[b])

\* the fetch fan-out of two students has settled and the run is past it
C5_FanOutSettled ==
    /\ pc = "sleep_fetched"
    /\ \E n, m \in StudentNumbers :
          /\ n /= m
          /\ students[n].quiz_data /= None
          /\ students[m].quiz_data /= None

C7_LessonFailureAborts ==
    /\ (lesson_id = None /\ pc \notin { "start", "create_lesson" }) =>
          pc \in { "abort_lesson", "raised_lesson" }
    /\ pc \in { "abort_lesson", "raised_lesson" } =>
          /\ lesson_id = None
          /\ students = << >>
          /\ oplog = << "create_lesson" >>
          /\ checks = << >>

\* a run for at least one student has aborted on create_lesson
C7_AbortedOnLesson ==
    pc = "abort_lesson" /\ num_students > 0 /\ students = << >>

\* C8: after the connect fan-out the run aborts exactly when no
\* connect_socket returned True; when at least one did it goes on to the
\* seat phase, and an aborted run issues no choose_seat and no instructor
\* call.
C8_AbortIffNoneConnected ==
    /\ pc = "abort_connect" =>
          /\ \A n \in StudentNumbers : students[n].result /= "true"
          /\ connected_count = 0
          /\ oplog = << "create_lesson", "connect" >>
    /\ pc = "sleep_connect" =>
          /\ \E n \in StudentNumbers : students[n].result = "true"
          /\ connected_count =
                Cardinality({ n \in StudentNumbers : students[n].result = "true" })
    /\ pc \notin { "start", "create_lesson", "sleep_lesson", "connect_gather",
                   "abort_lesson", "raised_lesson", "abort_connect" } =>
          connected_count > 0

\* a run with students has aborted because none of them connected
C8_AbortedNoneConnected ==
    /\ pc = "abort_connect"
    /\ students /= << >>
    /\ \A n \in StudentNumbers : students[n].result = "false"

CeilDiv(a, b) == (a + b - 1) \div b

\* the chunk sizes of K students: tens, then the rest
ExpectedChunks(K) ==
    [ j \in 1..CeilDiv(K, batch_size) |-> Min(batch_size, K - batch_size * (j - 1)) ]

\* the chunks whose gather has returned
ChunksDone == IF pc = "seat_gather" THEN Len(chunks) - 1 ELSE Len(chunks)

\* C9: K connected students take their seats in ceil(K/10) chunks of at
\* most 10 in list order (25 -> 10, 10, 5); the calls of a chunk all settle
\* before the next chunk starts; the delay is slept between chunks only,
\* never after the last.
C9_Chunks ==
    LET K == Len(connected_students) IN
    /\ pc \in { "seat_loop", "seat_gather", "seat_delay", "sleep_seated" } =>
          /\ Len(chunks) <= CeilDiv(K, batch_size)
          /\ \A j \in DOMAIN chunks : chunks[j] = ExpectedChunks(K)[j]
          /\ delays = Min(ChunksDone, CeilDiv(K, batch_size) - 1) \/
                (K = 0 /\ delays = 0)
    /\ pc = "seat_gather" =>
          /\ Gathered = Range(Batch(connected_students, i))
          /\ Gathered = { connected_students[j] :
                            j \in (batch_size * (Len(chunks) - 1) + 1) ..
                                  Min(batch_size * Len(chunks), K) }
    /\ pc /= "seat_gather" => Gathered = {}
    /\ pc = "sleep_seated" =>
          /\ chunks = ExpectedChunks(K)
          /\ K = 25 => chunks = << 10, 10, 5 >>
          /\ delays = IF K = 0 THEN 0 ELSE Len(chunks) - 1

\* 25 connected students have been seated in chunks of 10, 10 and 5 with
\* two delays
C9_TwentyFive ==
    /\ pc = "sleep_seated"
    /\ Len(connected_students) = 25
    /\ chunks = << 10, 10, 5 >>
    /\ delays = 2

\* C10: recording is idempotent: a handler that records a (kind,
\* student_id) already recorded leaves the set as it is, and the identity
\* counts once.
C10_RecordIdempotent ==
    \A n \in StudentNumbers, kind \in Kinds :
        LET once == on_event_tracker(tracker, kind, students[n])
            twice == on_event_tracker(once, kind, students[n])
        IN /\ twice = once
           /\ handler_adds(students[n]) =>
                 /\ students[n].student_id \in once[kind]
                 /\ Cardinality(once[kind]) =
                       Cardinality(tracker[kind] \cup {students[n].student_id})
                 /\ students[n].student_id \in tracker[kind] => once = tracker

\* a seated student's handler has recorded its identity for a kind that
\* the service is still pushing to it
C10_RecordedAgain ==
    \E n \in StudentNumbers :
        /\ "batch_quizzes_created" \in published
        /\ students[n].sio = "up"
        /\ handler_adds(students[n])
        /\ students[n].latest_batch_quizzes_id = batch_quizzes_id
        /\ students[n].student_id \in tracker["batch_quizzes_created"]

\* C11: whenever assert_all_received returns false it reports missing =
\* expected minus recorded and unexpected = recorded minus expected; for
\* expected {A, B, C} and recorded {A, B, D} it returns false with missing
\* {C} and unexpected {D}.
C11_Diagnostics ==
    \A j \in DOMAIN checks :
        LET c == checks[j] IN
        /\ ~c.result =>
              /\ c.missing = c.expected \ c.recorded
              /\ c.unexpected = c.recorded \ c.expected
              /\ c.missing /= {} \/ c.unexpected /= {}
        /\ ( /\ c.expected = { IdOf(1), IdOf(2), IdOf(3) }
             /\ c.recorded = { IdOf(1), IdOf(2), IdOf(4) } ) =>
              /\ ~c.result
              /\ c.missing = { IdOf(3) }
              /\ c.unexpected = { IdOf(4) }

\* the check of expected {id1, id2, id3} against recorded {id1, id2, id4}
\* has been made
C11_OneMissingOneUnexpected ==
    \E j \in DOMAIN checks :
        /\ checks[j].expected = { IdOf(1), IdOf(2), IdOf(3) }
        /\ checks[j].recorded = { IdOf(1), IdOf(2), IdOf(4) }
        /\ ~checks[j].result

\* ------------------------------------------- the operations one at a time
\* Each operation of the Teacher and of a Student, and each event handler,
\* applied to a student in any of the conditions a run can leave it in, with
\* any outcome of its request; calls records what the operation was given,
\* whether it sent its request, what it returned or that it raised, and the
\* student and the tracker before and after.
MaxCalls == 2

\* the fields of a Student that Student.__init__ declares
StudentFields(st) ==
    << st.sid, st.student_id, st.socket_token, st.connected,
       st.latest_batch_quizzes_id, st.quiz_data, st.lesson_id,
       st.disconnect_reason >>

\* a seated student whose seat response carried no socket_token
SeatedNoTokenStudent(n) ==
    [ choose_seat_settle(choose_seat_response(
          [ConnectedStudent(n) EXCEPT !.seat_calls = 1], "ok_no_token", "lesson"))
      EXCEPT !.task = "none" ]

\* the conditions of a student: created, connected, seated with or without
\* a token and with no quiz, a quiz, or a quiz without options; and each of
\* the connected ones with its transport dropped
OpsStudents ==
    LET seated == { [ s EXCEPT !.quiz_data = q ] :
                      s \in { SeatedStudent(1), SeatedNoTokenStudent(1) },
                      q \in { None, "quiz", "quiz_no_options" } }
        up == { ConnectedStudent(1) } \cup seated
    IN { Student(1) } \cup up \cup { transport_drop(s, None) : s \in up }

OpsInit ==
    /\ pc = "ops"
    /\ blocked = None
    /\ faults = 0
    /\ num_students = 1
    /\ lesson_id = "lesson"
    /\ batch_quizzes_id = "batch"
    /\ \E s \in OpsStudents : students = << s >>
    /\ tracker = EventTracker
    /\ published = {}
    /\ checks = << >>
    /\ oplog = << >>
    /\ connected_count = 0
    /\ connected_students = << >>
    /\ i = 0
    /\ seated_count = 0
    /\ submitted_count = 0
    /\ delays = 0
    /\ chunks = << >>
    /\ calls = << >>

\* the record of one call
Call(op, outcome, sent, before, after, returned, raised) ==
    [ op |-> op, outcome |-> outcome, sent |-> sent,
      before |-> before, after |-> after,
      tracker_before |-> tracker, tracker_after |-> tracker',
      returned |-> returned, raised |-> raised ]

\* the operation is applied and recorded; nothing else changes
Applied(c) ==
    /\ Len(calls) < MaxCalls
    /\ calls' = Append(calls, c)
    /\ UNCHANGED << orch, faults, num_students, published >>

OpCreateLesson ==
    \E outcome \in JsonOutcomes :
        /\ UNCHANGED << students, tracker >>
        /\ Applied(Call("create_lesson", outcome, TRUE, << >>, << >>,
                        create_lesson(outcome), create_lesson(outcome) = Raised))

OpCreateBatchQuizzes ==
    \E outcome \in JsonOutcomes :
        /\ UNCHANGED << students, tracker >>
        /\ Applied(Call("create_batch_quizzes", outcome, TRUE, << >>, << >>,
                        create_batch_quizzes(outcome),
                        create_batch_quizzes(outcome) = Raised))

\* update_batch_quiz_status (FINISH, CLOSE), disclose_batch_quiz,
\* add_student_points
OpTeacherPut ==
    \E op \in DOMAIN KindOfCall \ {"create_batch_quizzes"}, outcome \in HttpOutcomes :
        /\ UNCHANGED << students, tracker >>
        /\ Applied(Call(op, outcome, TRUE, << >>, << >>,
                        IF teacher_put(outcome) THEN "true" ELSE "false", FALSE))

\* what a student's coroutine or thread function gave its caller
ReturnedOf(st) == IF st.result = "exception" THEN Raised ELSE st.result

OpChooseSeat(n) ==
    \E outcome \in SeatOutcomes :
        LET after == choose_seat(students[n], outcome, lesson_id) IN
        /\ students' = [students EXCEPT ![n] = after]
        /\ UNCHANGED tracker
        /\ Applied(Call("choose_seat", outcome,
                        choose_seat_precondition(students[n]),
                        students[n], after,
                        ReturnedOf(after), after.result = "exception"))

OpGetLatestBatchQuiz(n) ==
    \E outcome \in GetOutcomes :
        LET after == get_latest_batch_quiz(students[n], outcome) IN
        /\ students' = [students EXCEPT ![n] = after]
        /\ UNCHANGED tracker
        /\ Applied(Call("get_latest_batch_quiz", outcome,
                        Truthy(students[n].student_id),
                        students[n], after,
                        IF after.result = "true" THEN after.quiz_data ELSE None,
                        after.result = "exception"))

OpSubmitAnswers(n) ==
    \E outcome \in HttpOutcomes :
        LET after == submit_answers(students[n], outcome) IN
        /\ students' = [students EXCEPT ![n] = after]
        /\ UNCHANGED tracker
        /\ Applied(Call("submit_answers", outcome,
                        submit_answers_sends(students[n]),
                        students[n], after,
                        ReturnedOf(after), after.result = "exception"))

\* one of the five events reaches the student's handler
OpEvent(n, kind) ==
    \E data_id \in { None, batch_quizzes_id } :
        LET after == on_event_student(students[n], kind, data_id) IN
        /\ students' = [students EXCEPT ![n] = after]
        /\ tracker' = on_event_tracker(tracker, kind, students[n])
        /\ Applied(Call(kind, "event", FALSE, students[n], after,
                        handler_ack(students[n], kind), FALSE))

\* an event of another kind reaches the catch-all handler
OpAnyEvent(n) ==
    /\ UNCHANGED << students, tracker >>
    /\ Applied(Call("*", "event", FALSE, students[n], students[n],
                    on_any_event(students[n], "other_event"), FALSE))

OpsNext ==
    \/ OpCreateLesson \/ OpCreateBatchQuizzes \/ OpTeacherPut
    \/ \E n \in StudentNumbers : OpChooseSeat(n)
    \/ \E n \in StudentNumbers : OpGetLatestBatchQuiz(n)
    \/ \E n \in StudentNumbers : OpSubmitAnswers(n)
    \/ \E n \in StudentNumbers, kind \in Kinds : OpEvent(n, kind)
    \/ \E n \in StudentNumbers : OpAnyEvent(n)

OpsSpec == OpsInit /\ [][OpsNext]_vars

\* the operations that make an HTTP request
RequestOps ==
    { "create_lesson", "create_batch_quizzes", "finish", "disclose", "close",
      "add_student_points", "choose_seat", "get_latest_batch_quiz",
      "submit_answers" }

\* the failure value of an operation: None for those that return a value,
\* False for those that return a bool
Sentinel(op) ==
    IF op \in { "create_lesson", "create_batch_quizzes", "get_latest_batch_quiz" }
    THEN None ELSE "false"

\* C12: every Teacher operation and every Student request operation whose
\* HTTP call fails at transport or status level returns its failure value
\* (None or False) and raises nothing.
C12_FailureGivesSentinel ==
    \A j \in DOMAIN calls :
        LET c == calls[j] IN
        (c.op \in RequestOps /\ c.sent /\ c.outcome = "http_error") =>
            /\ ~c.raised
            /\ c.returned = Sentinel(c.op)

\* a Teacher call and then a Student fetch have both failed and given their
\* failure values
C12_TwoFailures ==
    /\ Len(calls) = 2
    /\ calls[1].op = "create_batch_quizzes"
    /\ calls[1].outcome = "http_error"
    /\ calls[1].returned = None
    /\ calls[2].op = "get_latest_batch_quiz"
    /\ calls[2].sent
    /\ calls[2].outcome = "http_error"
    /\ calls[2].returned = None

\* C13: no operation raises past its own boundary for any outcome of the
\* external call: also for a successful response without the expected field
\* (lesson_id, batch_quizzes_id, student_id) and for a fetched SINGLE_SELECT
\* question with an empty option list the operation returns its failure
\* value.
C13_NoOperationRaises ==
    \A j \in DOMAIN calls :
        /\ ~calls[j].raised
        /\ calls[j].op \in RequestOps => calls[j].returned /= Raised

\* the students that exist before and after a step
Both == DOMAIN students \cap DOMAIN students'

\* C14: connect_socket always returns a boolean and never raises; it returns
\* True only if, within its wait of at most 50 polls, the connected flag is
\* set and the namespace has a transport id, and then sid is non-null; on a
\* connection error or when the wait is over it returns False.
C14_ConnectSocket ==
    /\ [] ( \A n \in StudentNumbers :
              /\ students[n].polls < PollLimit
              /\ (pc = "connect_gather" /\ students[n].task = "done") =>
                    /\ students[n].result \in { "true", "false" }
                    /\ students[n].result = "true" => students[n].sid /= 0
                    /\ students[n].sio = "failed" => students[n].result = "false" )
    /\ [][ \A n \in Both :
             /\ (students[n].task = "polling" /\ students'[n].task = "done") =>
                   /\ students'[n].result = "true" <=>
                         (students[n].connected /\ students[n].sio_sid /= 0)
                   /\ students'[n].result = "true" =>
                         students'[n].sid = students[n].sio_sid
                   /\ students'[n].result /= "true" =>
                         /\ students'[n].result = "false"
                         /\ students[n].polls = PollLimit - 1
             /\ (students[n].task = "connect_wait" /\ students'[n].task = "done") =>
                   students'[n].result = "false" ]_vars

\* a connect_socket whose transport dropped has returned False because its
\* wait was over
C14_TimedOut ==
    /\ pc = "connect_gather"
    /\ \E n \in StudentNumbers :
          /\ students[n].task = "done"
          /\ students[n].result = "false"
          /\ students[n].sio = "down"
          /\ students[n].epoch = 1

\* C15: a student operation whose precondition is not met returns its
\* failure value without sending a request and without changing the
\* student: choose_seat without a live transport id, get_latest_batch_quiz
\* without a student_id, submit_answers without a student_id or a fetched
\* quiz.
C15_PreconditionFailsFast ==
    \A j \in DOMAIN calls :
        LET c == calls[j]
            Untouched == /\ ~c.sent
                         /\ ~c.raised
                         /\ StudentFields(c.after) = StudentFields(c.before)
                         /\ c.tracker_after = c.tracker_before
        IN
        /\ ( /\ c.op = "choose_seat"
             /\ c.before.sio /= "up" \/ c.before.sio_sid = 0 ) =>
                Untouched /\ c.returned = "false"
        /\ ( /\ c.op = "get_latest_batch_quiz"
             /\ c.before.student_id = None ) =>
                Untouched /\ c.returned = None
        /\ ( /\ c.op = "submit_answers"
             /\ c.before.student_id = None \/ c.before.quiz_data = None ) =>
                Untouched /\ c.returned = "false"

\* choose_seat of a student whose transport has dropped, then submit_answers
\* of that student, which has no student_id: both returned False and sent
\* nothing
C15_NoLiveTransportId ==
    /\ Len(calls) = 2
    /\ calls[1].op = "choose_seat"
    /\ calls[1].before.sio = "down"
    /\ calls[1].before.sid /= 0
    /\ ~calls[1].sent
    /\ calls[1].returned = "false"
    /\ calls[2].op = "submit_answers"
    /\ calls[2].before.student_id = None
    /\ ~calls[2].sent
    /\ calls[2].returned = "false"

\* student_id, socket_token and lesson_id of a student
Identity(st) == << st.student_id, st.socket_token, st.lesson_id >>

\* C16: a student's student_id is null until one of its choose_seat calls
\* succeeds; a failed choose_seat leaves student_id, socket_token and
\* lesson_id as they were; once set, student_id never changes or becomes
\* null again, whatever connects, disconnects, reconnects, events, fetches
\* and submits follow.
C16_IdentitySetOnce ==
    /\ [] ( \A n \in StudentNumbers :
              students[n].seat_calls = 0 => students[n].student_id = None )
    /\ [][ \A n \in Both :
             /\ students[n].student_id /= None =>
                   students'[n].student_id = students[n].student_id
             /\ (students[n].student_id = None /\ students'[n].student_id /= None) =>
                   /\ students[n].task = "seat_post"
                   /\ students'[n].task = "seat_sleep"
             /\ ( /\ students[n].task \in { "seat_ready", "seat_post" }
                  /\ students'[n].task = "done" ) =>
                   /\ students'[n].result /= "true"
                   /\ Identity(students'[n]) = Identity(students[n]) ]_vars

\* a seated student has been through a disconnect, a reconnect, the created
\* event, a fetch and a submit with its student_id in place
C16_IdentityKept ==
    /\ pc = "sleep_submitted"
    /\ \E n \in StudentNumbers :
          /\ students[n].student_id = IdOf(n)
          /\ students[n].epoch = 2
          /\ students[n].latest_batch_quizzes_id /= None
          /\ students[n].quiz_data /= None

\* the reasons a student can have stored: a supplied one, or "Unknown"
StoredReasons == (DropReasons \ { None }) \cup { "Unknown" }

\* C17: a disconnect notification sets connected to false and stores a
\* non-empty disconnect reason ("Unknown" when none is supplied), and leaves
\* student_id, socket_token, lesson_id and the five tracker sets unchanged;
\* so the tracker sets only grow, and identity and earlier event records
\* survive disconnect/reconnect cycles.
C17_DisconnectKeepsRecords ==
    [][ /\ \A k \in DOMAIN tracker : tracker[k] \subseteq tracker'[k]
        /\ \A n \in Both :
             (students[n].sio = "up" /\ students'[n].sio /= "up") =>
                /\ students'[n].connected = FALSE
                /\ Truthy(students'[n].disconnect_reason)
                /\ students'[n].disconnect_reason \in StoredReasons
                /\ Identity(students'[n]) = Identity(students[n])
                /\ tracker' = tracker ]_vars

\* a seated student that reconnected once and was recorded for the created
\* event has dropped again, with no reason supplied
C17_SecondDrop ==
    \E n \in StudentNumbers :
       /\ students[n].sio = "down"
       /\ students[n].epoch >= 2
       /\ students[n].connected = FALSE
       /\ students[n].disconnect_reason = "Unknown"
       /\ students[n].student_id = IdOf(n)
       /\ IdOf(n) \in tracker["batch_quizzes_created"]

\* C18: when choose_seat's request has succeeded and the transport is found
\* disconnected after the settle delay, choose_seat still returns true and
\* the student keeps student_id, socket_token and lesson_id; the student
\* counts as seated.
C18_DropAfterSeatIsWarning ==
    [][ /\ \A n \in Both :
             ( /\ students[n].task = "seat_sleep"
               /\ students'[n].task = "done"
               /\ students[n].sio /= "up" ) =>
                /\ students'[n].result = "true"
                /\ students'[n].student_id /= None
                /\ Identity(students'[n]) = Identity(students[n])
        /\ (pc = "seat_gather" /\ pc' /= "seat_gather") =>
              seated_count' = seated_count +
                 Cardinality({ n \in Gathered : students[n].student_id /= None }) ]_vars

\* a choose_seat call has returned true for a student whose transport is down
C18_SeatedWhileDown ==
    /\ pc = "seat_gather"
    /\ \E n \in StudentNumbers :
          /\ students[n].task = "done"
          /\ students[n].result = "true"
          /\ students[n].sio = "down"
          /\ students[n].epoch = 1
          /\ students[n].student_id = IdOf(n)
          /\ students[n].lesson_id = lesson_id

\* C19: every inbound event notification is acknowledged: each of the five
\* handlers returns an acknowledgment whether or not student_id is set; the
\* catch-all handler takes an event of any other kind, returns an
\* acknowledgment without error and leaves the tracker and the student's
\* state unchanged.
C19_EveryEventAcknowledged ==
    \A j \in DOMAIN calls :
       /\ calls[j].op \in Kinds =>
             /\ ~calls[j].raised
             /\ calls[j].returned.status = "received"
             /\ calls[j].returned.student_id = calls[j].before.student_id
       /\ calls[j].op = "*" =>
             /\ ~calls[j].raised
             /\ calls[j].returned = [ status |-> "received" ]
             /\ calls[j].after = calls[j].before
             /\ calls[j].tracker_after = calls[j].tracker_before

\* a handler of the five has acknowledged an event for a student without
\* student_id, and the catch-all handler an event of another kind
C19_AckWithoutId ==
    /\ \E j \in DOMAIN calls :
          /\ calls[j].op \in Kinds
          /\ calls[j].before.student_id = None
          /\ calls[j].returned.status = "received"
    /\ \E j \in DOMAIN calls :
          /\ calls[j].op = "*"
          /\ calls[j].returned.status = "received"

\* Steps 6 to 9 of run_simulation: the instructor calls in program order
InstructorOps == << "finish", "disclose", "close", "add_student_points" >>

\* the position of run_simulation in the asyncio.sleep(3) that follows a call
DelayAfter ==
    [ finish |-> "sleep_finished", disclose |-> "sleep_disclosed",
      close |-> "sleep_closed", add_student_points |-> "sleep_points" ]

\* Steps 6 to 9 with their checks, in program order
InstructorSteps ==
    << "finish", "verify_batch_quizzes_finished",
       "disclose", "verify_batch_quizzes_disclosed",
       "close", "verify_batch_quizzes_closed",
       "add_student_points", "verify_student_points" >>

\* the instructor calls and checks of Steps 6 to 9 made so far, in order
StepsMade ==
    SelectSeq(oplog, LAMBDA o : \E k \in DOMAIN InstructorSteps : InstructorSteps[k] = o)

\* C20: after the batch is created the instructor calls are FINISH,
\* disclose, CLOSE, award-points in this order, each issued once; each is
\* followed by a delay and then one check of its own kind before the next
\* call is issued.
C20_InstructorSequence ==
    /\ Len(StepsMade) <= Len(InstructorSteps)
    /\ StepsMade = SubSeq(InstructorSteps, 1, Len(StepsMade))
    /\ \A k \in DOMAIN InstructorOps :
          pc \in { InstructorOps[k], DelayAfter[InstructorOps[k]] } =>
             /\ Len(StepsMade) = 2 * k - 1
             /\ Len(checks) = k
    /\ pc \in { "disconnect_gather", "done" } =>
          /\ StepsMade = InstructorSteps
          /\ Len(checks) = Len(InstructorOps) + 1
    /\ \A j \in DOMAIN checks :
          j >= 2 => /\ j - 1 \in DOMAIN InstructorOps
                    /\ checks[j].kind = KindOfCall[InstructorOps[j - 1]]

\* the four instructor calls have been issued, one of them failed, and the
\* delay after award-points is running with the first three checks made
C20_FourthDelay ==
    /\ pc = "sleep_points"
    /\ faults = 1
    /\ published = {}
    /\ Len(checks) = 4
    /\ checks[4].kind = "batch_quizzes_closed"
    /\ StepsMade = SubSeq(InstructorSteps, 1, 7)

\* the positions at which run_simulation has returned before the summary
AbortPoints == Returned \ { "done" }

FetchInit ==
    /\ pc = "get_gather"
    /\ blocked = ThreadHolder("get_latest_batch_quiz")
    /\ faults = 0
    /\ num_students = NumStudents
    /\ lesson_id = "lesson"
    /\ batch_quizzes_id = "batch"
    /\ \E seated \in SUBSET (1..NumStudents) : \E recorded \in SUBSET seated :
         /\ seated /= {}
         /\ students = [n \in 1..NumStudents |->
               IF n \in seated
               THEN StartTask(
                      IF n \in recorded
                      THEN on_event_student(SeatedStudent(n), "batch_quizzes_created",
                                            "batch")
                      ELSE SeatedStudent(n), "get_inflight")
               ELSE ConnectedStudent(n)]
         /\ tracker = [EventTracker EXCEPT
                         !["batch_quizzes_created"] = { IdOf(n) : n \in recorded }]
         /\ checks = << CheckRecord(tracker, "batch_quizzes_created",
                                    { IdOf(n) : n \in seated }) >>
         /\ seated_count = Cardinality(seated)
    /\ published = { "batch_quizzes_created" }
    /\ oplog = << "create_lesson", "connect", "choose_seat", "create_batch_quizzes",
                  "verify_batch_quizzes_created", "get_latest_batch_quiz" >>
    /\ connected_count = NumStudents
    /\ connected_students = [n \in 1..NumStudents |-> n]
    /\ i = batch_size
    /\ submitted_count = 0
    /\ delays = 0
    /\ chunks = << NumStudents >>
    /\ calls = << >>

FetchNext ==
    \/ GetGatherDone \/ SubmitStart \/ SubmitGatherDone
    \/ \E n \in StudentNumbers : GetReturn(n)
    \/ \E n \in StudentNumbers : SubmitReturn(n)
    \/ \E n \in StudentNumbers : EnvDrop(n)
    \/ \E n \in StudentNumbers : EnvReconnect(n)
    \/ \E n \in StudentNumbers : OnConnectResume(n)
    \/ \E n \in StudentNumbers, kind \in Kinds : OnEvent(n, kind)

FetchSpec == FetchInit /\ [][FetchNext]_vars

\* the students whose get_latest_batch_quiz or submit_answers is in flight
InFlight ==
    { n \in StudentNumbers : students[n].task \in { "get_inflight", "submit_inflight" } }

\* C22: get_latest_batch_quiz and submit_answers run off the event loop:
\* while any of these calls is in flight nothing holds the loop, and the
\* handler of an event the service delivers to any connected student can
\* run and record into the tracker.
C22_FetchOffLoop ==
    /\ pc \in { "get_gather", "submit_gather" } => blocked = None
    /\ (InFlight /= {} /\ Quiet) =>
          \A n \in StudentNumbers, kind \in published :
             students[n].sio = "up" => ENABLED OnEvent(n, kind)

\* the created event has been recorded for a student while the fetch of
\* another student, and then a submit, was in flight
C22_RecordedInFlight ==
    /\ pc = "submit_gather"
    /\ checks[1].recorded = {}
    /\ \E n, m \in StudentNumbers :
          /\ n /= m
          /\ students[m].task = "submit_inflight"
          /\ IdOf(n) \in tracker["batch_quizzes_created"]
          /\ IdOf(m) \notin tracker["batch_quizzes_created"]
          /\ ENABLED OnEvent(m, "batch_quizzes_created")

\* C23, as stated: no blocking network call runs on the event loop: while a
\* choose_seat request or a Teacher request is in flight, disconnect
\* notifications and event handlers of the students can still be dispatched.
C23_RequestsOffLoop ==
    (blocked /= None /\ Quiet) =>
       \A n \in StudentNumbers :
          students[n].sio = "up" =>
             /\ faults < MaxFaults => ENABLED EnvDrop(n)
             /\ \A kind \in published : ENABLED OnEvent(n, kind)

\* C24: at the teardown a disconnect is started for every spawned student in
\* one fan-out, sio.disconnect() being awaited only for the students whose
\* transport is connected; a disconnect that fails stops neither the other
\* disconnects nor the summary.
C24_TeardownReachesAll ==
    /\ [] ( /\ pc = "disconnect_gather" =>
                /\ Len(students) = num_students
                /\ \A n \in StudentNumbers :
                      students[n].task \in { "disconnect_wait", "done" }
            /\ pc = "done" =>
                /\ oplog[Len(oplog)] = "summary"
                /\ \A n \in StudentNumbers :
                      /\ students[n].task = "none"
                      /\ students[n].result \in { "none", "exception" }
                      /\ students[n].result = "exception" => students[n].sio /= "closed" )
    /\ [][ /\ (pc = "sleep_points" /\ pc' = "disconnect_gather") =>
                \A n \in Both :
                   (students'[n].task = "disconnect_wait") <=> SioConnected(students[n])
           /\ \A n \in Both :
                 ( /\ students[n].task = "disconnect_wait"
                   /\ students'[n].task = "done" ) =>
                    /\ \A m \in Both \ {n} : students'[m] = students[m]
                    /\ students'[n].result = "none" =>
                          students'[n].sio = "closed" /\ ~students'[n].connected ]_vars

\* the summary has been reached after the disconnect of one student failed
\* and that of another went through
C24_SummaryAfterFailedDisconnect ==
    /\ pc = "done"
    /\ \E n, m \in StudentNumbers :
          /\ students[n].result = "exception"
          /\ students[n].sio = "up"
          /\ students[m].sio = "closed"
          /\ students[m].result = "none"

\* ------------------------------------------------- the run without faults
HappyPopulation == 5   \* num_students of the run without faults

\* run_simulation for HappyPopulation students when the environment has no
\* fault left to give: every call succeeds, no transport drops and every
\* event reaches every seated student before its check.
HappyInit ==
    /\ pc = "start"
    /\ blocked = None
    /\ faults = MaxFaults
    /\ num_students = HappyPopulation
    /\ lesson_id = None
    /\ batch_quizzes_id = None
    /\ students = << >>
    /\ tracker = EventTracker
    /\ published = {}
    /\ checks = << >>
    /\ oplog = << >>
    /\ connected_count = 0
    /\ connected_students = << >>
    /\ i = 0
    /\ seated_count = 0
    /\ submitted_count = 0
    /\ delays = 0
    /\ chunks = << >>
    /\ calls = << >>

HappyNext ==
    \/ CreateLessonCall \/ CreateLessonReturn \/ SpawnAndConnect
    \/ ConnectGatherDone \/ SeatPhaseStart \/ SeatBatchStart \/ SeatBatchEnd
    \/ SeatLoopExit \/ CreateBatchCall \/ CreateBatchReturn
    \/ VerifyCreatedAndFetch \/ GetGatherDone \/ SubmitStart \/ SubmitGatherDone
    \/ FinishCall \/ FinishReturn \/ VerifyFinishedAndDisclose \/ DiscloseReturn
    \/ VerifyDisclosedAndClose \/ CloseReturn \/ VerifyClosedAndPoints
    \/ PointsReturn \/ VerifyPointsAndDisconnect \/ Summary
    \/ \E n \in StudentNumbers : ConnectReturn(n)
    \/ \E n \in StudentNumbers : ConnectPoll(n)
    \/ \E n \in StudentNumbers : SeatCall(n)
    \/ \E n \in StudentNumbers : SeatReturn(n)
    \/ \E n \in StudentNumbers : SeatResume(n)
    \/ \E n \in StudentNumbers : GetReturn(n)
    \/ \E n \in StudentNumbers : SubmitReturn(n)
    \/ \E n \in StudentNumbers : DisconnectReturn(n)
    \/ \E n \in StudentNumbers : OnConnectResume(n)
    \/ \E n \in StudentNumbers, kind \in Kinds : OnEvent(n, kind)

HappySpec == HappyInit /\ [][HappyNext]_vars

\* C25: with a population of 5 in which every student connects and claims a
\* seat, every instructor call succeeds and the service delivers each of the
\* five kinds to every seated student before its check, all five checks
\* return true with 5 recorded out of 5 expected and all 5 students submit.
C25_FullDelivery ==
    /\ \A j \in DOMAIN checks :
          /\ checks[j].result
          /\ Cardinality(checks[j].recorded) = HappyPopulation
          /\ Cardinality(checks[j].expected) = HappyPopulation
          /\ checks[j].missing = {} /\ checks[j].unexpected = {}
    /\ pc \in { "sleep_submitted", "done" } => submitted_count = HappyPopulation
    /\ pc = "done" =>
          /\ Len(checks) = Len(KindOrder)
          /\ connected_count = HappyPopulation
          /\ seated_count = HappyPopulation
    /\ pc \notin AbortPoints

\* the run of the whole population has reached the summary with its five
\* checks made
C25_HappyRunDone ==
    /\ pc = "done"
    /\ num_students = HappyPopulation
    /\ Len(checks) = Len(KindOrder)
    /\ checks[5].kind = "student_points"
    /\ Cardinality(checks[5].recorded) = HappyPopulation
    /\ submitted_count = HappyPopulation

\* ------------------------------------------------------------ termination
\* run_simulation is called; the environment has one fault to give in the
\* run, whatever the fault budget of the other specifications.
LiveInit ==
    /\ pc = "start"
    /\ blocked = None
    /\ faults = MaxFaults - 1
    /\ num_students \in 0..NumStudents
    /\ lesson_id = None
    /\ batch_quizzes_id = None
    /\ students = << >>
    /\ tracker = EventTracker
    /\ published = {}
    /\ checks = << >>
    /\ oplog = << >>
    /\ connected_count = 0
    /\ connected_students = << >>
    /\ i = 0
    /\ seated_count = 0
    /\ submitted_count = 0
    /\ delays = 0
    /\ chunks = << >>
    /\ calls = << >>

\* The steps of the program and the answers to its calls: every action but
\* the transport's drop and its reconnection.
Scheduled ==
    \/ CreateLessonCall \/ CreateLessonReturn \/ SpawnAndConnect
    \/ ConnectGatherDone \/ SeatPhaseStart \/ SeatBatchStart \/ SeatBatchEnd
    \/ SeatLoopExit \/ CreateBatchCall \/ CreateBatchReturn
    \/ VerifyCreatedAndFetch \/ GetGatherDone \/ SubmitStart \/ SubmitGatherDone
    \/ FinishCall \/ FinishReturn \/ VerifyFinishedAndDisclose \/ DiscloseReturn
    \/ VerifyDisclosedAndClose \/ CloseReturn \/ VerifyClosedAndPoints
    \/ PointsReturn \/ VerifyPointsAndDisconnect \/ Summary
    \/ \E n \in StudentNumbers : ConnectReturn(n)
    \/ \E n \in StudentNumbers : ConnectRaise(n)
    \/ \E n \in StudentNumbers : ConnectPoll(n)
    \/ \E n \in StudentNumbers : SeatCall(n)
    \/ \E n \in StudentNumbers : SeatReturn(n)
    \/ \E n \in StudentNumbers : SeatResume(n)
    \/ \E n \in StudentNumbers : GetReturn(n)
    \/ \E n \in StudentNumbers : SubmitReturn(n)
    \/ \E n \in StudentNumbers : DisconnectReturn(n)
    \/ \E n \in StudentNumbers : OnConnectResume(n)
    \/ \E n \in StudentNumbers, kind \in Kinds : OnEvent(n, kind)

\* The asyncio loop runs every coroutine and handler that is ready, and
\* every external call returns or times out: a step of the program that can
\* be taken is taken.  Nothing makes a dropped transport come back.
LiveSpec == LiveInit /\ [][Next]_vars /\ WF_vars(Scheduled)

DispatchInit ==
    /\ pc = "ops"
    /\ blocked = None
    /\ faults = 0
    /\ num_students = NumStudents
    /\ lesson_id = "lesson"
    /\ batch_quizzes_id = "batch"
    /\ \E seated \in SUBSET (1..NumStudents) :
         students = [n \in 1..NumStudents |->
                       IF n \in seated THEN SeatedStudent(n) ELSE ConnectedStudent(n)]
    /\ tracker = EventTracker
    /\ published = Kinds
    /\ checks = << >>
    /\ oplog = << >>
    /\ connected_count = NumStudents
    /\ connected_students = << >>
    /\ i = 0
    /\ seated_count = 0
    /\ submitted_count = 0
    /\ delays = 0
    /\ chunks = << >>
    /\ calls = << >>

\* the event loop dispatches one notification at a time, of any kind to any
\* student, in any order
DispatchNext == \E n \in StudentNumbers, kind \in Kinds : OpEvent(n, kind)

DispatchSpec == DispatchInit /\ [][DispatchNext]_vars

\* the tracker after the handlers of the notifications cs have run in the
\* order of cs, from the tracker t
RECURSIVE Replay(_, _)
Replay(t, cs) ==
    IF cs = << >> THEN t
    ELSE Replay(on_event_tracker(t, Head(cs).op, Head(cs).before), Tail(cs))

\* the orders in which the dispatched notifications could have been dispatched
Orders == Permutations(DOMAIN calls)

\* C27: the tracker does not depend on the order in which the handlers of
\* different students are dispatched: every interleaving of the same
\* multiset of notifications ends with the same five sets, and no recorded
\* identity is lost.
C27_OrderIndependent ==
    /\ \A p \in Orders :
          Replay(EventTracker, [j \in DOMAIN calls |-> calls[p[j]]]) = tracker
    /\ \A j \in DOMAIN calls :
          Truthy(calls[j].before.student_id) =>
             calls[j].before.student_id \in tracker[calls[j].op]

\* two seated students have got the same kind one after the other and both
\* are recorded
C27_TwoRecorded ==
    \E j, k \in DOMAIN calls :
       /\ j < k
       /\ calls[j].op = calls[k].op
       /\ Truthy(calls[j].before.student_id)
       /\ Truthy(calls[k].before.student_id)
       /\ calls[j].before.student_id /= calls[k].before.student_id
       /\ tracker[calls[j].op] =
             { calls[j].before.student_id, calls[k].before.student_id }

MaxQuestions == 2      \* questions of a fetched quiz

\* min(3, len(option_list)): the most options a MULTIPLE_SELECT answer holds
MaxSelections == 3

\* lengths of option_list: none, fewer than, as many as and more than
\* MaxSelections
OptionCounts == 0..(MaxSelections + 1)

QuizTypes == { "TRUE_FALSE", "SINGLE_SELECT", "MULTIPLE_SELECT", "SHORT_ANSWER" }

\* the entries of data.quizzes: quiz_type and len(option_list)
QuizShapes ==
    [ quiz_type : { "SINGLE_SELECT", "MULTIPLE_SELECT" }, options : OptionCounts ]
    \cup [ quiz_type : { "TRUE_FALSE", "SHORT_ANSWER" }, options : { 0, 2 } ]

\* the quizzes of a fetched quiz_data
QuizLists == UNION { [1..len -> QuizShapes] : len \in 0..MaxQuestions }

Min2(a, b) == IF a < b THEN a ELSE b

\* random.sample(range(1, n + 1), k): the lists of k distinct ids of 1..n
Samples(n, k) ==
    { s \in [1..k -> 1..n] : \A x, y \in 1..k : x /= y => s[x] /= s[y] }

\* the values answer_data can get for a quiz; the empty set when the draw
\* raises (random.randint(1, 0) is a ValueError)
answer_data(quiz) ==
    IF quiz.quiz_type = "TRUE_FALSE" THEN { << 1 >>, << 2 >> }
    ELSE IF quiz.quiz_type = "SINGLE_SELECT"
         THEN { << k >> : k \in 1..quiz.options }
    ELSE IF quiz.quiz_type = "MULTIPLE_SELECT"
         THEN UNION { Samples(quiz.options, num_selections) :
                        num_selections \in 0..Min2(MaxSelections, quiz.options) }
    ELSE { << >> }

\* submit_answers of a seated student is called with a fetched quiz
AnswerInit ==
    /\ pc = "ops"
    /\ blocked = None
    /\ faults = 0
    /\ num_students = 1
    /\ lesson_id = "lesson"
    /\ batch_quizzes_id = "batch"
    /\ students = << [SeatedStudent(1) EXCEPT !.quiz_data = "quiz"] >>
    /\ tracker = EventTracker
    /\ published = {}
    /\ checks = << >>
    /\ oplog = << >>
    /\ connected_count = 1
    /\ connected_students = << >>
    /\ i = 0
    /\ seated_count = 1
    /\ submitted_count = 0
    /\ delays = 0
    /\ chunks = << >>
    /\ \E quizzes \in QuizLists :
         calls = << [ op |-> "submit_answers", quizzes |-> quizzes,
                      answers |-> << >>, raised |-> FALSE, returned |-> None ] >>

\* one iteration of `for quiz in quizzes`
AnswerQuiz ==
    LET c == calls[1]
        k == Len(c.answers) + 1
    IN /\ ~c.raised /\ c.returned = None
       /\ k <= Len(c.quizzes)
       /\ answer_data(c.quizzes[k]) /= {}
       /\ \E a \in answer_data(c.quizzes[k]) :
            calls' = << [c EXCEPT !.answers =
                           Append(@, [ quiz_id |-> k, answer_data |-> a ])] >>
       /\ UNCHANGED << orch, faults, num_students, students, tracker, published >>

\* the draw of an iteration raises: submit_answers ends with the exception
AnswerRaise ==
    LET c == calls[1]
        k == Len(c.answers) + 1
    IN /\ ~c.raised /\ c.returned = None
       /\ k <= Len(c.quizzes)
       /\ answer_data(c.quizzes[k]) = {}
       /\ calls' = << [c EXCEPT !.raised = TRUE] >>
       /\ UNCHANGED << orch, faults, num_students, students, tracker, published >>

\* the PUT of the payload, after the loop
AnswerPut ==
    LET c == calls[1]
    IN /\ ~c.raised /\ c.returned = None
       /\ Len(c.answers) = Len(c.quizzes)
       /\ \E outcome \in { "ok", "http_error" } :
            calls' = << [c EXCEPT !.returned =
                           IF outcome = "ok" THEN "true" ELSE "false"] >>
       /\ UNCHANGED << orch, faults, num_students, students, tracker, published >>

AnswerNext == AnswerQuiz \/ AnswerRaise \/ AnswerPut

AnswerSpec == AnswerInit /\ [][AnswerNext]_vars

\* the answer the statement allows for a quiz
AnswerFits(quiz, a) ==
    IF quiz.quiz_type = "TRUE_FALSE" THEN Len(a) = 1 /\ a[1] \in { 1, 2 }
    ELSE IF quiz.quiz_type = "SINGLE_SELECT"
         THEN Len(a) = 1 /\ a[1] \in 1..quiz.options
    ELSE IF quiz.quiz_type = "MULTIPLE_SELECT"
         THEN /\ Len(a) <= Min2(3, quiz.options)
              /\ \A x \in DOMAIN a : a[x] \in 1..quiz.options
              /\ \A x, y \in DOMAIN a : x /= y => a[x] /= a[y]
    ELSE a = << >>

\* C29, as stated: submit_answers builds one answer entry per question of
\* the fetched quiz, in question order: for SINGLE_SELECT with N options one
\* id of 1..N, for TRUE_FALSE one id of {1, 2}, for MULTIPLE_SELECT with N
\* options distinct ids of 1..N, between 0 and min(3, N) of them, and for
\* any other type the empty answer.
C29_OneAnswerPerQuestion ==
    \A j \in DOMAIN calls :
       calls[j].op = "submit_answers" =>
          /\ ~calls[j].raised
          /\ Len(calls[j].answers) <= Len(calls[j].quizzes)
          /\ \A k \in DOMAIN calls[j].answers :
                /\ calls[j].answers[k].quiz_id = k
                /\ AnswerFits(calls[j].quizzes[k], calls[j].answers[k].answer_data)
          /\ calls[j].returned /= None =>
                Len(calls[j].answers) = Len(calls[j].quizzes)

\* the statement for the quizzes the draws do not raise on
C29_ExceptEmptySingleSelect ==
    \A j \in DOMAIN calls :
       calls[j].op = "submit_answers" =>
          /\ calls[j].raised =>
                LET q == calls[j].quizzes[Len(calls[j].answers) + 1]
                IN q.quiz_type = "SINGLE_SELECT" /\ q.options = 0
          /\ \A k \in DOMAIN calls[j].answers :
                /\ calls[j].answers[k].quiz_id = k
                /\ AnswerFits(calls[j].quizzes[k], calls[j].answers[k].answer_data)
          /\ calls[j].returned /= None =>
                Len(calls[j].answers) = Len(calls[j].quizzes)

\* C30: in every run, at every check each per-kind set of the tracker is a
\* subset of the seated identities computed at that check, so the
\* unexpected difference is empty and a check fails only for missing
\* identities.
C30_NothingUnexpected ==
    /\ \A kind \in Kinds : tracker[kind] \subseteq NonNullStudentIds
    /\ \A j \in DOMAIN checks :
          /\ checks[j].recorded \subseteq checks[j].expected
          /\ checks[j].unexpected = {}
          /\ Unexpected(checks[j].recorded, checks[j].expected) = {}
          /\ ~checks[j].result => checks[j].missing /= {}

\* a check has failed with one seated student recorded and another missing
C30_FailedForMissing ==
    \E j \in DOMAIN checks :
       /\ ~checks[j].result
       /\ checks[j].recorded /= {}
       /\ checks[j].missing /= {}
       /\ checks[j].unexpected = {}

\* --------------------------------------------- runs with two faults to give
\* run_simulation is called; the environment has two faults to give in the
\* run (a claim answered without socket_token, and a drop), whatever the
\* fault budget of the other specifications.
JoinInit ==
    /\ pc = "start"
    /\ blocked = None
    /\ faults = MaxFaults - 2
    /\ num_students \in 0..NumStudents
    /\ lesson_id = None
    /\ batch_quizzes_id = None
    /\ students = << >>
    /\ tracker = EventTracker
    /\ published = {}
    /\ checks = << >>
    /\ oplog = << >>
    /\ connected_count = 0
    /\ connected_students = << >>
    /\ i = 0
    /\ seated_count = 0
    /\ submitted_count = 0
    /\ delays = 0
    /\ chunks = << >>
    /\ calls = << >>

JoinSpec == JoinInit /\ [][Next]_vars

\* C31, as stated: join_lesson is emitted only by a connect notification
\* with the three fields set, so a student whose transport never drops after
\* its claim never sends join_lesson.
C31_NoJoinWithoutLaterDrop ==
    \A n \in StudentNumbers :
       students[n].epoch = students[n].seat_epoch => students[n].joins = << >>

\* C31: join_lesson is emitted only by the connect handler, and only when
\* lesson_id, student_id and socket_token are set and the namespace
\* transport id is available: the first connect emits none, choose_seat
\* emits none, a student that has connected only once has sent none, and a
\* seated student whose claim response had no socket_token sends none, also
\* when it reconnects.  A student that reconnected before its claim can send
\* one join_lesson without a drop after the claim: the connect handler of
\* the reconnection reads the fields after its 0.1 s wait.
C31_JoinOnlyOnSeatedReconnect ==
    /\ [] ( \A n \in StudentNumbers :
              /\ students[n].epoch <= 1 => students[n].joins = << >>
              /\ students[n].epoch = students[n].seat_epoch =>
                    Len(students[n].joins) <= 1
              /\ students[n].socket_token = None => students[n].joins = << >>
              /\ students[n].student_id = None => students[n].joins = << >> )
    /\ [][ \A n \in Both :
             /\ students'[n].joins /= students[n].joins =>
                   /\ students[n].hpc = "sleep" /\ students'[n].hpc = "none"
                   /\ students'[n].task = students[n].task
                   /\ students[n].lesson_id /= None
                   /\ students[n].student_id /= None
                   /\ students[n].socket_token /= None
                   /\ students[n].sio_sid /= 0
                   /\ students'[n].joins =
                         Append(students[n].joins, JoinMessage(students[n]))
             /\ students'[n].task /= students[n].task =>
                   students'[n].joins = students[n].joins ]_vars

\* a student seated without socket_token has dropped, reconnected and
\* finished its connect handler with the new transport id, and has sent no
\* join_lesson
C31_NoTokenReconnected ==
    \E n \in StudentNumbers :
       /\ students[n].student_id = IdOf(n)
       /\ students[n].lesson_id = lesson_id
       /\ students[n].socket_token = None
       /\ students[n].epoch = 2
       /\ students[n].sio = "up"
       /\ students[n].hpc = "none"
       /\ students[n].sid = students[n].sio_sid
       /\ students[n].joins = << >>

\* C32: in a run choose_seat is called at most once per student, and only
\* for the students whose connected flag is true when connected_students is
\* computed after the post-connect delay: a student that is disconnected at
\* that moment is not offered a seat later, even if it reconnects, and a
\* student whose connect_socket returned false but whose flag has since
\* become true is included.
C32_SeatOfferedOnce ==
    /\ [] ( \A n \in StudentNumbers :
              /\ students[n].seat_calls <= 1
              /\ students[n].seat_calls = 1 => n \in Range(connected_students)
              /\ ( /\ n \in Range(connected_students)
                   /\ pc \notin { "seat_loop", "seat_gather", "seat_delay" } )
                 => students[n].seat_calls = 1
              /\ students[n].student_id /= None => n \in Range(connected_students) )
    /\ [][ /\ (pc = "sleep_connect" /\ pc' = "seat_loop") =>
                /\ Range(connected_students') =
                      { n \in StudentNumbers : students[n].connected }
                /\ Len(connected_students') =
                      Cardinality({ n \in StudentNumbers : students[n].connected })
           /\ pc /= "sleep_connect" => connected_students' = connected_students ]_vars

\* at the summary: fewer connect_socket calls returned true than students
\* were in the subset, so a student whose connect_socket did not return true
\* (it reconnected afterwards) was offered a seat, once, and took it
C32_LateStudentSeated ==
    /\ pc = "done"
    /\ connected_count < Len(connected_students)
    /\ \A n \in Range(connected_students) :
          students[n].seat_calls = 1 /\ students[n].student_id /= None
    /\ \E n \in Range(connected_students) : students[n].epoch >= 2

\* C33, as stated: every run that has created its students has issued the
\* disconnect of every student when it returns, on every exit path, and no
\* student transport is connected when the run has ended.
C33_TeardownOnEveryExit ==
    (pc \in Returned /\ students /= << >>) =>
        /\ "disconnect" \in Range(oplog)
        /\ \A n \in StudentNumbers : students[n].sio /= "up"

====
